---- MODULE Spec2Model ----
(***************************************************************************)
(* Launch orchestration and window tracking engine of Respace.             *)
(*                                                                         *)
(* The engine (core/launcher/launcher.ts, strategies/app-launcher.ts)      *)
(* launches the application items of a workspace in delay groups with a    *)
(* three-phase protocol (capture before-state, launch, capture             *)
(* after-state), returns the tracked windows, and later verifies and       *)
(* closes them.  The operating system (process table, windows, scripting   *)
(* bridge) is the environment: it changes between any two steps.           *)
(***************************************************************************)
EXTENDS Integers, Sequences, FiniteSets, TLC

\* ------------------------------------------------------------------ bounds
MaxItems == 2
MaxWindowId == 2
\* longest path, url or command text of an item launched on its own
MaxLen == 3

\* --------------------------------------------------------------- constants
\* systemWindowId of an app-level artifact
NoArtifactId == 0
\* what Number.parseInt gives for a token that is no number
NaN == -1
\* the wait between the launch commands of a group and its capture-after
SettleMs == 1500
\* waitForAppToLaunch: the time between two polls, the time it polls for,
\* and the time it gives a process it found to open its windows
PollIntervalMs == 100
MaxWaitMs == 1500
WindowSettleMs == 300

Apps == {"Calendar", "Spotify"}

\* applications that answer "get id of every window" with window ids; the
\* others (Electron, Chromium) expose none
ScriptableApps == {"Calendar"}
Delays == {0, 500}
WindowIds == 1..MaxWindowId

\* item.path, already cut at its "/" separators; ext is a trailing ".app"
Paths ==
  { [segs |-> <<"", "Applications", "Calendar">>, ext |-> ".app"],
    [segs |-> <<"Spotify">>, ext |-> ""],
    [segs |-> <<"", "Applications", "">>, ext |-> ""] }

\* the path of a url item, cut the same way
UrlPath == [segs |-> <<"https:", "", "example.com">>, ext |-> ""]

\* the item types that have a launch strategy
StrategyTypes == {"app", "file", "folder", "url", "terminal"}

\* application items, url items, and an item of a type no strategy knows
\* (the items come from a JSON file)
WorkspaceItem ==
  [type : {"app"}, path : Paths, delay : Delays]
    \cup [type : {"url"}, path : {UrlPath}, delay : Delays]
    \cup [type : {"shortcut"}, path : {UrlPath}, delay : {0}]

ItemLists == UNION { [1..n -> WorkspaceItem] : n \in 1..MaxItems }

\* a workspace of an application with window ids, a url and an application
\* without window ids, all without delay
ScenarioItems ==
  << [type |-> "app",
      path |-> [segs |-> <<"", "Applications", "Calendar">>, ext |-> ".app"],
      delay |-> 0],
     [type |-> "url", path |-> UrlPath, delay |-> 0],
     [type |-> "app", path |-> [segs |-> <<"Spotify">>, ext |-> ""],
      delay |-> 0] >>

Workspaces == ItemLists \cup {ScenarioItems}

VARIABLES
  os,                \* process table, windows and bridge of the machine
  nextWindowId,      \* the next window id the machine hands out
  items,             \* the items given to launchWorkspace
  pc,                \* where launchWorkspace is
  groupIdx,          \* position in sortedDelays
  finished,          \* items of the group that finished the current phase
  beforeStates,      \* per item: pending, null or a BeforeLaunchState
  trackedWindowsArrays, \* per item: result of its capture-after
  allTrackedWindows, \* the list launchWorkspace returns
  nextUuid,          \* stands for randomUUID(): never repeats
  afterIdsSeen,      \* per item: the ids its capture-after read, if it ran
  windowsAtCapture,  \* per item: the windows its process really had open
                     \* when its capture-before ran
  verified,          \* what the last verifyAllWindows returned
  verifyInput,       \* the list it was given
         \* input and result of the verify right before it
  closeReport,       \* what the last closeWorkspace verified, issued, said
  lastOp,            \* kind of the last step taken
  progress,          \* per item: how far launchWorkspace is with it
  launchFailed,      \* items whose launch command failed
  otherResults,      \* per non-application item: result of its launchItem
  elapsedMs,         \* time the timers awaited so far have taken together
  launchedAt,        \* elapsedMs when the launches of the group were all in
  launchReport,      \* what the last launchWorkspace returned and showed
  probe,             \* a window probe on its own: the exec result it got
                     \* and what it gave back
  strategyCall,      \* a launch or close of a file, url or terminal strategy
                     \* on its own: the commands it issued, how it ended
  wait,              \* the wait of a captureAfterState on its own: what it
                     \* polled and which timers it awaited
  toast,             \* what launchWorkspace has shown on its toast so far
  terminated,        \* ids of the artifacts a closeWorkspace has closed or
                     \* found gone
  capture,           \* a capture of one application on its own: what its
                     \* probes gave, what it returned, how a close went on
  timedExec          \* one call of execWithTimeout: its timer, its child
                     \* process and what it resolved with

vars == << os, nextWindowId, items, pc, groupIdx, finished, beforeStates,
           trackedWindowsArrays, allTrackedWindows, nextUuid, afterIdsSeen,
           windowsAtCapture, verified, verifyInput, closeReport, lastOp,
           progress, launchFailed, otherResults, elapsedMs, launchedAt,
           launchReport, probe, strategyCall, wait, toast, terminated,
           capture, timedExec >>

\* the variables of one run of launchWorkspace that the other operations
\* leave alone
launchVars == << progress, launchFailed, otherResults, elapsedMs, launchedAt >>

\* ----------------------------------------------------------------- helpers
Range(s) == { s[k] : k \in DOMAIN s }

Includes(s, x) == \E k \in DOMAIN s : s[k] = x

Min(S) == CHOOSE x \in S : \A y \in S : x <= y

RECURSIVE Ascending(_)
Ascending(S) == IF S = {} THEN <<>> ELSE <<Min(S)>> \o Ascending(S \ {Min(S)})

RECURSIVE Flatten(_)
Flatten(ss) == IF ss = <<>> THEN <<>> ELSE Head(ss) \o Flatten(Tail(ss))

\* keys of a Map filled in one pass over a list: first-occurrence order
RECURSIVE MapKeys(_)
MapKeys(keys) ==
  IF keys = <<>> THEN <<>>
  ELSE <<Head(keys)>> \o SelectSeq(MapKeys(Tail(keys)), LAMBDA k : k # Head(keys))

\* --------------------------------------------------------- the window probe
\* how a child process ends: with its stdout, with an error, or not within
\* the time it is given; stdout is the trimmed output cut into its tokens
ExecOutcomes == {"ok", "error", "timeout"}

\* execWithTimeout: the stdout, or "" on timeout or error; never rejects
execWithTimeout(r) == IF r.outcome = "ok" THEN r.stdout ELSE <<>>

\* mutant: the error of the child process is not caught
isAppRunningResult_NoCatch(r) ==
  IF r.outcome = "ok" THEN [threw |-> FALSE, value |-> Len(r.stdout) > 0]
  ELSE [threw |-> TRUE, value |-> FALSE]

\* isAppRunning on the result of its pgrep: whether it threw, what it gave
isAppRunningResult(r) ==
  [ threw |-> FALSE,
    value |-> IF r.outcome = "ok" THEN Len(r.stdout) > 0 ELSE FALSE ]

\* getWindowIdsViaDirectApp on the result of its script
getWindowIdsResult(r) ==
  [ threw |-> FALSE,
    value |-> SelectSeq(execWithTimeout(r), LAMBDA id : id # NaN) ]

\* mutant: the error of a title script is not caught
getWindowTitleResult_NoCatch(r) ==
  [ threw |-> r.outcome # "ok",
    value |-> IF r.outcome # "ok" \/ r.stdout = <<>> THEN <<"undefined">>
              ELSE r.stdout ]

\* getWindowTitle on the result of its script: title || undefined
getWindowTitleResult(r) ==
  [ threw |-> FALSE,
    value |-> IF execWithTimeout(r) = <<>> THEN <<"undefined">>
              ELSE execWithTimeout(r) ]

\* the windows a process really has open
WindowsOf(o, appName) ==
  IF appName \in ScriptableApps /\ o.running[appName] THEN o.wins ELSE {}

\* pgrep -x appName || true: a pid per process of that name, exit status 0
Pgrep(o, appName) ==
  [ outcome |-> "ok", stdout |-> IF o.running[appName] THEN <<1>> ELSE <<>> ]

isAppRunning(o, appName) == isAppRunningResult(Pgrep(o, appName)).value

\* the "get id of every window" script: an application that is not running
\* or has no scripting of windows gives an error, one that does not answer
\* runs into the timeout
IdsScript(o, appName) ==
  IF ~o.running[appName] \/ appName \notin ScriptableApps
  THEN [outcome |-> "error", stdout |-> <<>>]
  ELSE IF ~o.responsive
  THEN [outcome |-> "timeout", stdout |-> <<>>]
  ELSE [outcome |-> "ok", stdout |-> Ascending(o.wins)]

\* stdout of the "get id of every window" script; "" on timeout or error
WindowIdsStdout(o, appName) == execWithTimeout(IdsScript(o, appName))

getWindowIdsViaDirectApp(o, appName) ==
  getWindowIdsResult(IdsScript(o, appName)).value

getWindowIds(o, appName) == getWindowIdsViaDirectApp(o, appName)

\* ------------------------------------------------------------ state capture
AppNameThrows(item) == item.path.segs[Len(item.path.segs)] = ""

getAppName(item) == item.path.segs[Len(item.path.segs)]

captureBeforeState(o, i, item) ==
  [ kind |-> "state",
    item |-> i,
    wasRunning |-> isAppRunning(o, getAppName(item)),
    windowIdsBefore |-> getWindowIds(o, getAppName(item)),
    appName |-> getAppName(item) ]

\* mutant: the ids read after the launch are not compared with the ids before
NewWindowIds_NoFilter(afterIds, windowIdsBefore) == afterIds

NewWindowIds(afterIds, windowIdsBefore) ==
  SelectSeq(afterIds, LAMBDA id : ~Includes(windowIdsBefore, id))

\* mutant: the artifact's own id is stored where the window id belongs
TrackedWindow_OwnIdAsWindowId(uuid, windowId, before, mode) ==
  [ id |-> uuid, systemWindowId |-> uuid, itemId |-> before.item,
    appName |-> before.appName, type |-> "app", trackingMode |-> mode ]

TrackedWindow(uuid, windowId, before, mode) ==
  [ id |-> uuid, systemWindowId |-> windowId, itemId |-> before.item,
    appName |-> before.appName, type |-> "app", trackingMode |-> mode ]

\* mutant: no app-level artifact when no new window id shows
captureAfterState_NoAppLevel(before, afterIds, uuid) ==
  LET newWindowIds == NewWindowIds(afterIds, before.windowIdsBefore)
  IN [ k \in 1..Len(newWindowIds) |->
         TrackedWindow(uuid + k - 1, newWindowIds[k], before, "window") ]

\* mutant: wasRunning is not looked at
captureAfterState_IgnoresWasRunning(before, afterIds, uuid) ==
  LET newWindowIds == NewWindowIds(afterIds, before.windowIdsBefore)
  IN IF Len(newWindowIds) > 0
     THEN [ k \in 1..Len(newWindowIds) |->
              TrackedWindow(uuid + k - 1, newWindowIds[k], before, "window") ]
     ELSE << TrackedWindow(uuid, NoArtifactId, before, "app") >>

\* mutant: the app-level artifact is added whenever the application was not
\* running, new windows or not
captureAfterState_AppLevelAlways(before, afterIds, uuid) ==
  LET newWindowIds == NewWindowIds(afterIds, before.windowIdsBefore)
  IN [ k \in 1..Len(newWindowIds) |->
         TrackedWindow(uuid + k - 1, newWindowIds[k], before, "window") ]
     \o (IF ~before.wasRunning
         THEN << TrackedWindow(uuid + Len(newWindowIds), NoArtifactId,
                               before, "app") >>
         ELSE <<>>)

captureAfterState(before, afterIds, uuid) ==
  LET newWindowIds == NewWindowIds(afterIds, before.windowIdsBefore)
  IN IF Len(newWindowIds) > 0
     THEN [ k \in 1..Len(newWindowIds) |->
              TrackedWindow(uuid + k - 1, newWindowIds[k], before, "window") ]
     ELSE IF ~before.wasRunning
     THEN << TrackedWindow(uuid, NoArtifactId, before, "app") >>
     ELSE <<>>

\* AppLauncher.launch, the standard method: captureBeforeState, launchOnly
\* and captureAfterState in a row; the error of any of them is thrown on as
\* "Failed to launch".  before is the before-state or null when getAppName
\* throws, opened whether the open command worked, afterIds the ids read
\* after the launch.
launch(before, opened, afterIds, uuid) ==
  IF before.kind = "null" \/ ~opened
  THEN [threw |-> TRUE, tracked |-> <<>>]
  ELSE [threw |-> FALSE, tracked |-> captureAfterState(before, afterIds, uuid)]

\* ---------------------------------------------------------- launchWorkspace
appItems == { i \in DOMAIN items : items[i].type = "app" }

otherItems == { i \in DOMAIN items : items[i].type # "app" }

\* mutant: the delays are taken in the order the Map got them, not sorted
sortedDelays_InsertionOrder ==
  MapKeys([k \in 1..Cardinality(appItems) |->
             items[Ascending(appItems)[k]].delay])

sortedDelays == Ascending({ items[i].delay : i \in appItems })

Group(g) == { i \in appItems : items[i].delay = sortedDelays[g] }

\* the applications the items name (the others stay out of the picture)
Launched(its) ==
  { getAppName(its[i]) : i \in { j \in DOMAIN its : ~AppNameThrows(its[j]) } }

NoClose == [ran |-> FALSE]

NoLaunch == [ran |-> FALSE]

NoProbe == [call |-> "none"]

NoCall == [op |-> "none"]

NoWait == [ran |-> FALSE]

NoCapture == [ran |-> FALSE]

NoExec == [started |-> FALSE]

NoError == [kind |-> "none", item |-> 0]

NotLaunched == [done |-> FALSE, success |-> FALSE, windows |-> <<>>,
                error |-> NoError]

\* where launchWorkspace goes when it comes to the g-th delay group: into the
\* wait of the group, into its phase 1, and after the last group to the other
\* items or to the end
StartOf(g) ==
  IF g <= Len(sortedDelays)
  THEN IF sortedDelays[g] > 0 THEN "delay" ELSE "phase1"
  ELSE IF otherItems # {} THEN "others" ELSE "idle"

Init ==
  /\ items \in Workspaces
  /\ os \in [ running : [Apps -> BOOLEAN], wins : {{}}, responsive : {TRUE} ]
  /\ \A appName \in Apps : os.running[appName] => appName \in Launched(items)
  /\ nextWindowId = 1
  /\ pc = StartOf(1)
  /\ groupIdx = 1
  /\ finished = {}
  /\ beforeStates = [i \in DOMAIN items |-> [kind |-> "pending"]]
  /\ trackedWindowsArrays = [i \in DOMAIN items |-> <<>>]
  /\ allTrackedWindows = <<>>
  /\ nextUuid = 1
  /\ afterIdsSeen = [i \in DOMAIN items |-> [ran |-> FALSE]]
  /\ windowsAtCapture = [i \in DOMAIN items |-> {}]
  /\ verified = <<>>
  /\ verifyInput = <<>>
  /\ closeReport = NoClose
  /\ lastOp = "start"
  /\ progress = [i \in DOMAIN items |-> "pending"]
  /\ launchFailed = {}
  /\ otherResults = [i \in DOMAIN items |-> NotLaunched]
  /\ elapsedMs = 0
  /\ launchedAt = 0
  /\ launchReport = NoLaunch
  /\ probe = NoProbe
  /\ strategyCall = NoCall
  /\ wait = NoWait
  /\ toast = <<>>
  /\ terminated = {}
  /\ capture = NoCapture
  /\ timedExec = NoExec

\* if (delayMs > 0) await delay(delayMs): the timer of the group fires
AwaitDelay ==
  /\ pc = "delay"
  /\ pc' = "phase1"
  /\ elapsedMs' = elapsedMs + sortedDelays[groupIdx]
  /\ lastOp' = "launch"
  /\ UNCHANGED << os, nextWindowId, items, groupIdx, finished, beforeStates,
                  trackedWindowsArrays, allTrackedWindows, nextUuid,
                  afterIdsSeen, windowsAtCapture, verified, verifyInput,
                  closeReport, progress, launchFailed, otherResults,
                  launchedAt, launchReport, probe,
                  strategyCall, wait, toast, terminated,
                  capture, timedExec >>

\* Phase 1: captureBeforeState of one item of the group (any order)
CaptureBefore(i) ==
  /\ pc = "phase1"
  /\ i \in Group(groupIdx) \ finished
  /\ beforeStates' = [beforeStates EXCEPT ![i] =
        IF AppNameThrows(items[i]) THEN [kind |-> "null"]
        ELSE captureBeforeState(os, i, items[i])]
  /\ finished' = finished \cup {i}
  /\ progress' = [progress EXCEPT ![i] = "before"]
  /\ lastOp' = "launch"
  /\ windowsAtCapture' = [windowsAtCapture EXCEPT ![i] =
        IF AppNameThrows(items[i]) THEN {}
        ELSE WindowsOf(os, getAppName(items[i]))]
  /\ UNCHANGED << os, nextWindowId, items, pc, groupIdx, trackedWindowsArrays,
                  allTrackedWindows, nextUuid, afterIdsSeen, verified,
                  verifyInput, closeReport, launchFailed, otherResults,
                  elapsedMs, launchedAt, launchReport, probe,
                  strategyCall, wait, toast, terminated,
                  capture, timedExec >>

\* mutant: phase 2 starts when the first before-state is in
Phase1Barrier_NoWait ==
  /\ pc = "phase1"
  /\ finished # {}
  /\ pc' = "phase2"
  /\ finished' = {}
  /\ lastOp' = "launch"
  /\ UNCHANGED << os, nextWindowId, items, groupIdx, beforeStates,
                  trackedWindowsArrays, allTrackedWindows, nextUuid,
                  afterIdsSeen, windowsAtCapture, verified, verifyInput,
                  closeReport, launchVars, launchReport, probe,
                  strategyCall, wait, toast, terminated,
                  capture, timedExec >>

\* await Promise.all(beforeStatePromises)
Phase1Barrier ==
  /\ pc = "phase1"
  /\ finished = Group(groupIdx)
  /\ pc' = "phase2"
  /\ finished' = {}
  /\ lastOp' = "launch"
  /\ UNCHANGED << os, nextWindowId, items, groupIdx, beforeStates,
                  trackedWindowsArrays, allTrackedWindows, nextUuid,
                  afterIdsSeen, windowsAtCapture, verified, verifyInput,
                  closeReport, launchVars, launchReport, probe,
                  strategyCall, wait, toast, terminated,
                  capture, timedExec >>

\* Phase 2: launchOnly of one item; the open command starts the process or
\* fails (as does getAppName), and a failure is caught and logged
LaunchOnly(i) ==
  /\ pc = "phase2"
  /\ i \in Group(groupIdx) \ finished
  /\ \E opened \in BOOLEAN :
       /\ os' = IF opened /\ ~AppNameThrows(items[i])
                THEN [os EXCEPT !.running[getAppName(items[i])] = TRUE]
                ELSE os
       /\ launchFailed' = IF opened /\ ~AppNameThrows(items[i])
                          THEN launchFailed ELSE launchFailed \cup {i}
  /\ finished' = finished \cup {i}
  /\ progress' = [progress EXCEPT ![i] = "launched"]
  /\ lastOp' = "launch"
  /\ UNCHANGED << nextWindowId, items, pc, groupIdx, beforeStates,
                  trackedWindowsArrays, allTrackedWindows, nextUuid,
                  afterIdsSeen, windowsAtCapture, verified, verifyInput,
                  closeReport, otherResults, elapsedMs, launchedAt,
                  launchReport, probe,
                  strategyCall, wait, toast, terminated,
                  capture, timedExec >>

\* await Promise.all(launchPromises), then delay(1500) is started
Phase2Barrier ==
  /\ pc = "phase2"
  /\ finished = Group(groupIdx)
  /\ pc' = "settle"
  /\ finished' = {}
  /\ launchedAt' = elapsedMs
  /\ lastOp' = "launch"
  /\ UNCHANGED << os, nextWindowId, items, groupIdx, beforeStates,
                  trackedWindowsArrays, allTrackedWindows, nextUuid,
                  afterIdsSeen, windowsAtCapture, verified, verifyInput,
                  closeReport, progress, launchFailed, otherResults,
                  elapsedMs, launchReport, probe,
                  strategyCall, wait, toast, terminated,
                  capture, timedExec >>

\* await delay(1500): the timer fires
SettleElapsed ==
  /\ pc = "settle"
  /\ pc' = "phase3"
  /\ elapsedMs' = elapsedMs + SettleMs
  /\ lastOp' = "launch"
  /\ UNCHANGED << os, nextWindowId, items, groupIdx, finished, beforeStates,
                  trackedWindowsArrays, allTrackedWindows, nextUuid,
                  afterIdsSeen, windowsAtCapture, verified, verifyInput,
                  closeReport, progress, launchFailed, otherResults,
                  launchedAt, launchReport, probe,
                  strategyCall, wait, toast, terminated,
                  capture, timedExec >>

\* mutant: the window-id script is awaited without a timeout
CaptureAfter_NoTimeout(i) ==
  /\ pc = "phase3"
  /\ i \in Group(groupIdx) \ finished
  /\ IF beforeStates[i].kind = "null"
     THEN /\ trackedWindowsArrays' = [trackedWindowsArrays EXCEPT ![i] = <<>>]
          /\ UNCHANGED << nextUuid, afterIdsSeen >>
     ELSE LET before == beforeStates[i]
              afterIds == getWindowIds(os, before.appName)
              tracked == captureAfterState(before, afterIds, nextUuid)
          IN /\ IdsScript(os, before.appName).outcome # "timeout"
             /\ trackedWindowsArrays' =
                  [trackedWindowsArrays EXCEPT ![i] = tracked]
             /\ nextUuid' = nextUuid + Len(tracked)
             /\ afterIdsSeen' = [afterIdsSeen EXCEPT ![i] =
                                  [ran |-> TRUE, afterIds |-> afterIds]]
  /\ finished' = finished \cup {i}
  /\ progress' = [progress EXCEPT ![i] = "after"]
  /\ lastOp' = "launch"
  /\ UNCHANGED << os, nextWindowId, items, pc, groupIdx, beforeStates,
                  allTrackedWindows, windowsAtCapture, verified, verifyInput,
                  closeReport, launchFailed, otherResults, elapsedMs,
                  launchedAt, launchReport, probe,
                  strategyCall, wait, toast, terminated,
                  capture, timedExec >>

\* Phase 3: captureAfterState of one item, or [] for a null before-state
CaptureAfter(i) ==
  /\ pc = "phase3"
  /\ i \in Group(groupIdx) \ finished
  /\ IF beforeStates[i].kind = "null"
     THEN /\ trackedWindowsArrays' = [trackedWindowsArrays EXCEPT ![i] = <<>>]
          /\ UNCHANGED << nextUuid, afterIdsSeen >>
     ELSE LET before == beforeStates[i]
              afterIds == getWindowIds(os, before.appName)
              tracked == captureAfterState(before, afterIds, nextUuid)
          IN /\ trackedWindowsArrays' =
                  [trackedWindowsArrays EXCEPT ![i] = tracked]
             /\ nextUuid' = nextUuid + Len(tracked)
             /\ afterIdsSeen' = [afterIdsSeen EXCEPT ![i] =
                                  [ran |-> TRUE, afterIds |-> afterIds]]
  /\ finished' = finished \cup {i}
  /\ progress' = [progress EXCEPT ![i] = "after"]
  /\ lastOp' = "launch"
  /\ UNCHANGED << os, nextWindowId, items, pc, groupIdx, beforeStates,
                  allTrackedWindows, windowsAtCapture, verified, verifyInput,
                  closeReport, launchFailed, otherResults, elapsedMs,
                  launchedAt, launchReport, probe,
                  strategyCall, wait, toast, terminated,
                  capture, timedExec >>

\* successCount, and the toast and HUD at the end of launchWorkspace
Summary(its, errors) ==
  [ style |-> IF Len(errors) = 0 THEN "success" ELSE "failure",
    successCount |-> Len(its) - Len(errors),
    total |-> Len(its),
    message |-> IF Len(errors) = 0 THEN NoError ELSE errors[1] ]

\* toast.message = `${allTrackedWindows.length} items tracked`
TrackedMessage(tracked) ==
  [ kind |-> "message", text |-> "items tracked", count |-> Len(tracked),
    of |-> 0 ]

\* the style, title and message the toast gets at the end
SummaryMessage(its, errors) ==
  [ kind |-> "summary", text |-> Summary(its, errors).style,
    count |-> Summary(its, errors).successCount, of |-> Len(its) ]

\* return allTrackedWindows: the summary is shown, the list goes to the
\* caller, and the locals of the call are gone; shown is what the toast has
\* shown until then
Return(tracked, errors, shown) ==
  /\ pc' = "idle"
  /\ allTrackedWindows' = tracked
  /\ toast' = <<>>
  /\ launchReport' = [ ran |-> TRUE, returned |-> tracked,
                       summary |-> Summary(items, errors),
                       toast |-> Append(shown, SummaryMessage(items, errors)),
                       items |-> items, progress |-> progress,
                       launchFailed |-> launchFailed,
                       before |-> beforeStates, after |-> afterIdsSeen,
                       arrays |-> trackedWindowsArrays,
                       others |-> otherResults ]
  /\ groupIdx' = 1
  /\ finished' = {}
  /\ items' = <<>>
  /\ beforeStates' = <<>>
  /\ trackedWindowsArrays' = <<>>
  /\ afterIdsSeen' = <<>>
  /\ windowsAtCapture' = <<>>
  /\ progress' = <<>>
  /\ launchFailed' = {}
  /\ otherResults' = <<>>
  /\ elapsedMs' = 0
  /\ launchedAt' = 0

\* mutant: the results of a group replace the list instead of joining it
CollectResults_Overwrites ==
  /\ pc = "phase3"
  /\ finished = Group(groupIdx)
  /\ LET tracked ==
           Flatten([k \in 1..Cardinality(Group(groupIdx)) |->
                      trackedWindowsArrays[Ascending(Group(groupIdx))[k]]])
     IN IF StartOf(groupIdx + 1) = "idle"
        THEN Return(tracked, <<>>, Append(toast, TrackedMessage(tracked)))
        ELSE /\ allTrackedWindows' = tracked
             /\ toast' = Append(toast, TrackedMessage(tracked))
             /\ pc' = StartOf(groupIdx + 1)
             /\ groupIdx' = groupIdx + 1
             /\ finished' = {}
             /\ UNCHANGED << items, beforeStates, trackedWindowsArrays,
                             afterIdsSeen, windowsAtCapture, launchVars,
                             launchReport >>
  /\ lastOp' = "launch"
  /\ UNCHANGED << os, nextWindowId, nextUuid, verified, verifyInput,
                  closeReport, probe, strategyCall, wait, terminated,
                  capture, timedExec >>

\* await Promise.all(afterStatePromises), collect the group's results and go
\* to the next delay group, or after the last one to the other items, or
\* return when there are none
CollectResults ==
  /\ pc = "phase3"
  /\ finished = Group(groupIdx)
  /\ LET tracked == allTrackedWindows \o
           Flatten([k \in 1..Cardinality(Group(groupIdx)) |->
                      trackedWindowsArrays[Ascending(Group(groupIdx))[k]]])
     IN IF StartOf(groupIdx + 1) = "idle"
        THEN Return(tracked, <<>>, Append(toast, TrackedMessage(tracked)))
        ELSE /\ allTrackedWindows' = tracked
             /\ toast' = Append(toast, TrackedMessage(tracked))
             /\ pc' = StartOf(groupIdx + 1)
             /\ groupIdx' = groupIdx + 1
             /\ finished' = {}
             /\ UNCHANGED << items, beforeStates, trackedWindowsArrays,
                             afterIdsSeen, windowsAtCapture, launchVars,
                             launchReport >>
  /\ lastOp' = "launch"
  /\ UNCHANGED << os, nextWindowId, nextUuid, verified, verifyInput,
                  closeReport, probe, strategyCall, wait, terminated,
                  capture, timedExec >>

\* what the launch of a file, folder, url or terminal item returns: these
\* items open no window that is tracked
OtherLaunchWindows(item) == <<>>

\* mutant: the error of an item is not caught and ends launchWorkspace
LaunchOther_ThrowAborts(i) ==
  /\ pc = "others"
  /\ i \in otherItems \ finished
  /\ \E ok \in BOOLEAN :
       IF ok /\ items[i].type \in StrategyTypes
       THEN /\ otherResults' = [otherResults EXCEPT ![i] =
                 [ done |-> TRUE, success |-> TRUE,
                   windows |-> OtherLaunchWindows(items[i]),
                   error |-> NoError ]]
            /\ finished' = finished \cup {i}
            /\ progress' = [progress EXCEPT ![i] = "launched"]
            /\ UNCHANGED << items, pc, groupIdx, beforeStates,
                            trackedWindowsArrays, allTrackedWindows,
                            afterIdsSeen, windowsAtCapture, launchFailed,
                            elapsedMs, launchedAt, launchReport, toast >>
       ELSE Return(allTrackedWindows,
                   << [kind |-> "Failed to launch", item |-> i] >>, toast)
  /\ lastOp' = "launch"
  /\ UNCHANGED << os, nextWindowId, nextUuid, verified, verifyInput,
                  closeReport, probe, strategyCall, wait, terminated,
                  capture, timedExec >>

\* mutant: the other items are started with the call, next to the groups
LaunchOther_AnyTime(i) ==
  /\ pc # "idle"
  /\ i \in otherItems
  /\ progress[i] = "pending"
  /\ \E ok \in BOOLEAN :
       LET success == ok /\ items[i].type \in StrategyTypes
       IN /\ otherResults' = [otherResults EXCEPT ![i] =
               [ done |-> TRUE, success |-> success,
                 windows |-> <<>>,
                 error |-> IF success THEN NoError
                           ELSE [kind |-> "Failed to launch", item |-> i] ]]
          /\ launchFailed' = IF success THEN launchFailed
                             ELSE launchFailed \cup {i}
  /\ finished' = IF pc = "others" THEN finished \cup {i} ELSE finished
  /\ progress' = [progress EXCEPT ![i] = "launched"]
  /\ lastOp' = "launch"
  /\ UNCHANGED << os, nextWindowId, items, pc, groupIdx, beforeStates,
                  trackedWindowsArrays, allTrackedWindows, nextUuid,
                  afterIdsSeen, windowsAtCapture, verified, verifyInput,
                  closeReport, elapsedMs, launchedAt, launchReport, probe,
                  strategyCall, wait, toast, terminated,
                  capture, timedExec >>

\* mutant: an item of a type without a strategy is passed over in silence
LaunchOther_NoStrategyCheck(i) ==
  /\ pc = "others"
  /\ i \in otherItems \ finished
  /\ \E ok \in BOOLEAN :
       LET success == ok \/ items[i].type \notin StrategyTypes
       IN /\ otherResults' = [otherResults EXCEPT ![i] =
               [ done |-> TRUE, success |-> success, windows |-> <<>>,
                 error |-> IF success THEN NoError
                           ELSE [kind |-> "Failed to launch", item |-> i] ]]
          /\ launchFailed' = IF success THEN launchFailed
                             ELSE launchFailed \cup {i}
  /\ finished' = finished \cup {i}
  /\ progress' = [progress EXCEPT ![i] = "launched"]
  /\ lastOp' = "launch"
  /\ UNCHANGED << os, nextWindowId, items, pc, groupIdx, beforeStates,
                  trackedWindowsArrays, allTrackedWindows, nextUuid,
                  afterIdsSeen, windowsAtCapture, verified, verifyInput,
                  closeReport, elapsedMs, launchedAt, launchReport, probe,
                  strategyCall, wait, toast, terminated,
                  capture, timedExec >>

\* launchItem of one non-application item (any order): a type without a
\* strategy throws, the open command of the strategy succeeds or throws
LaunchOther(i) ==
  /\ pc = "others"
  /\ i \in otherItems \ finished
  /\ \E ok \in BOOLEAN :
       LET success == ok /\ items[i].type \in StrategyTypes
           result ==
             IF success
             THEN [ done |-> TRUE, success |-> TRUE,
                    windows |-> OtherLaunchWindows(items[i]),
                    error |-> NoError ]
             ELSE [ done |-> TRUE, success |-> FALSE, windows |-> <<>>,
                    error |-> [ kind |-> IF items[i].type \in StrategyTypes
                                         THEN "Failed to launch"
                                         ELSE "Unknown item type",
                                item |-> i ] ]
       IN /\ otherResults' = [otherResults EXCEPT ![i] = result]
          /\ launchFailed' = IF success THEN launchFailed
                             ELSE launchFailed \cup {i}
  /\ finished' = finished \cup {i}
  /\ progress' = [progress EXCEPT ![i] = "launched"]
  /\ lastOp' = "launch"
  /\ UNCHANGED << os, nextWindowId, items, pc, groupIdx, beforeStates,
                  trackedWindowsArrays, allTrackedWindows, nextUuid,
                  afterIdsSeen, windowsAtCapture, verified, verifyInput,
                  closeReport, elapsedMs, launchedAt, launchReport, probe,
                  strategyCall, wait, toast, terminated,
                  capture, timedExec >>

\* the results of the other items, in the order of the items
OtherWindows(results, order) ==
  Flatten([k \in DOMAIN order |->
             IF results[order[k]].success THEN results[order[k]].windows
             ELSE <<>>])

OtherErrors(results, order) ==
  Flatten([k \in DOMAIN order |->
             IF results[order[k]].success THEN <<>>
             ELSE << results[order[k]].error >>])

\* await Promise.all(otherPromises), collect windows and errors, show the
\* summary and return
OthersBarrier ==
  /\ pc = "others"
  /\ finished = otherItems
  /\ Return(allTrackedWindows \o
              OtherWindows(otherResults, Ascending(otherItems)),
            OtherErrors(otherResults, Ascending(otherItems)), toast)
  /\ lastOp' = "launch"
  /\ UNCHANGED << os, nextWindowId, nextUuid, verified, verifyInput,
                  closeReport, probe, strategyCall, wait, terminated,
                  capture, timedExec >>

\* ------------------------------------------------------- verifyAllWindows
\* mutant: the loop over the window-level windows skips the first one
VerifyApp_SkipsFirst(o, appWindows, appName) ==
  IF ~isAppRunning(o, appName) THEN <<>>
  ELSE LET appLevelTracked ==
             SelectSeq(appWindows, LAMBDA w : w.trackingMode = "app")
           windowLevelTracked ==
             SelectSeq(appWindows, LAMBDA w : w.trackingMode = "window")
           currentIds == getWindowIds(o, appName)
       IN appLevelTracked \o
          SelectSeq(IF windowLevelTracked = <<>> THEN <<>>
                    ELSE Tail(windowLevelTracked),
                    LAMBDA w : Includes(currentIds, w.systemWindowId))

\* mutant: the app-level windows are looked up among the window ids too
VerifyApp_AppLevelById(o, appWindows, appName) ==
  IF ~isAppRunning(o, appName) THEN <<>>
  ELSE SelectSeq(appWindows,
         LAMBDA w : Includes(getWindowIds(o, appName), w.systemWindowId))

\* mutant: what is returned is brought up to date: a window that is found
\* among the ids of the application is returned as window-level
VerifyApp_Normalises(o, appWindows, appName) ==
  IF ~isAppRunning(o, appName) THEN <<>>
  ELSE LET currentIds == getWindowIds(o, appName)
           kept == SelectSeq(appWindows,
                     LAMBDA w : \/ w.trackingMode = "app"
                                \/ Includes(currentIds, w.systemWindowId))
       IN [ k \in DOMAIN kept |-> [kept[k] EXCEPT !.trackingMode = "window"] ]

\* AppLauncher.verifyWindows: per appName, nothing when the process is not
\* running; else the app-level windows, then the window-level windows whose
\* id is among the ids the application reports now
VerifyApp(o, appWindows, appName) ==
  IF ~isAppRunning(o, appName) THEN <<>>
  ELSE LET appLevelTracked ==
             SelectSeq(appWindows, LAMBDA w : w.trackingMode = "app")
           windowLevelTracked ==
             SelectSeq(appWindows, LAMBDA w : w.trackingMode = "window")
           currentIds == getWindowIds(o, appName)
       IN appLevelTracked \o
          SelectSeq(windowLevelTracked,
                    LAMBDA w : Includes(currentIds, w.systemWindowId))

verifyWindows(o, windows) ==
  LET names == MapKeys([k \in DOMAIN windows |-> windows[k].appName])
  IN Flatten([n \in DOMAIN names |->
       VerifyApp(o, SelectSeq(windows, LAMBDA w : w.appName = names[n]),
                 names[n])])

\* per item type, in Map order, the strategy of the type verifies its windows
verifyAllWindows(o, windows) ==
  LET types == MapKeys([k \in DOMAIN windows |-> windows[k].type])
  IN Flatten([t \in DOMAIN types |->
       IF types[t] = "app"
       THEN verifyWindows(o, SelectSeq(windows, LAMBDA w : w.type = types[t]))
       ELSE <<>>])

VerifyOps == {"verify", "verifyAfterClose", "verifyAfterVerify"}

\* the caller verifies the list the launch returned, or the list the last
\* verify returned
Verify ==
  /\ pc = "idle"
  /\ \E windows \in {allTrackedWindows, verified} :
       /\ verifyInput' = windows
       /\ verified' = verifyAllWindows(os, windows)
  /\ lastOp' = IF lastOp = "close" THEN "verifyAfterClose"
                ELSE IF lastOp \in VerifyOps THEN "verifyAfterVerify"
                ELSE "verify"
  /\ launchReport' = NoLaunch
  /\ UNCHANGED << os, nextWindowId, items, pc, groupIdx, finished,
                  beforeStates, trackedWindowsArrays, allTrackedWindows,
                  nextUuid, afterIdsSeen, windowsAtCapture, closeReport,
                  launchVars, probe,
                  strategyCall, wait, toast, terminated,
                  capture, timedExec >>

\* ---------------------------------------------------------- closeWorkspace
\* what the machine does with a quit or killall that succeeds
QuitEffect(o, appName) ==
  [o EXCEPT !.running[appName] = FALSE,
            !.wins = IF appName \in ScriptableApps THEN {} ELSE @]

\* what it does with a click on the close button, or a close, of window id
CloseWindowEffect(o, appName, windowId) ==
  IF appName \in ScriptableApps /\ o.running[appName]
  THEN [o EXCEPT !.wins = @ \ {windowId}]
  ELSE o

Command(cmd, window, ok) ==
  [ cmd |-> cmd, appName |-> window.appName,
    systemWindowId |-> window.systemWindowId, for |-> window.id, ok |-> ok ]

\* how the two commands of one window end: the first succeeds ("first"), the
\* first fails and the second succeeds ("second"), both fail ("none")
Outcomes == {"first", "second", "none"}

\* mutant: a window-level window is closed by quitting its application
CloseOne_QuitsApp(st, window, outcome) ==
  IF outcome = "first"
  THEN [ errors |-> st.errors,
         os |-> QuitEffect(st.os, window.appName),
         log |-> Append(st.log, Command("quit", window, TRUE)) ]
  ELSE LET killed == outcome = "second" /\ st.os.running[window.appName]
       IN [ errors |-> st.errors,
            os |-> IF killed THEN QuitEffect(st.os, window.appName) ELSE st.os,
            log |-> st.log \o << Command("quit", window, FALSE),
                                 Command("killall", window, killed) >> ]

\* mutant: the artifact's own id is used where the window id belongs
CloseOne_OwnIdAsWindowId(st, window, outcome) ==
  IF window.trackingMode = "app"
  THEN CloseOne_QuitsApp(st, window, outcome)
  ELSE IF outcome = "first"
       THEN [ errors |-> st.errors,
              os |-> CloseWindowEffect(st.os, window.appName, window.id),
              log |-> Append(st.log, Command("click", window, TRUE)) ]
       ELSE [ errors |-> st.errors,
              os |-> IF outcome = "second"
                     THEN CloseWindowEffect(st.os, window.appName, window.id)
                     ELSE st.os,
              log |-> st.log \o << Command("click", window, FALSE),
                                   Command("close", window,
                                           outcome = "second") >> ]

\* mutant: a quit that fails is not followed by a killall
CloseOne_NoForceQuit(st, window, outcome) ==
  IF window.trackingMode = "app"
  THEN [ errors |-> st.errors,
         os |-> IF outcome = "first" THEN QuitEffect(st.os, window.appName)
                ELSE st.os,
         log |-> Append(st.log, Command("quit", window, outcome = "first")) ]
  ELSE IF outcome = "first"
       THEN [ errors |-> st.errors,
              os |-> CloseWindowEffect(st.os, window.appName,
                                       window.systemWindowId),
              log |-> Append(st.log, Command("click", window, TRUE)) ]
       ELSE [ errors |-> st.errors,
              os |-> IF outcome = "second"
                     THEN CloseWindowEffect(st.os, window.appName,
                                            window.systemWindowId)
                     ELSE st.os,
              log |-> st.log \o << Command("click", window, FALSE),
                                   Command("close", window,
                                           outcome = "second") >> ]

\* mutant: the direct close is sent after the click whether it worked or not
CloseOne_BothMethods(st, window, outcome) ==
  IF window.trackingMode = "app"
  THEN CloseOne_QuitsApp(st, window, outcome)
  ELSE [ errors |-> st.errors,
         os |-> IF outcome # "none"
                THEN CloseWindowEffect(st.os, window.appName,
                                       window.systemWindowId)
                ELSE st.os,
         log |-> st.log \o << Command("click", window, outcome = "first"),
                              Command("close", window, outcome # "none") >> ]

\* one iteration of the loop of AppLauncher.close; st is the machine and the
\* commands issued so far; errors are the errors that got out of the loop
CloseOne(st, window, outcome) ==
  IF window.trackingMode = "app"
  THEN IF outcome = "first"
       THEN [ errors |-> st.errors,
              os |-> QuitEffect(st.os, window.appName),
              log |-> Append(st.log, Command("quit", window, TRUE)) ]
       ELSE LET killed == outcome = "second" /\ st.os.running[window.appName]
            IN [ errors |-> st.errors,
                 os |-> IF killed THEN QuitEffect(st.os, window.appName)
                        ELSE st.os,
                 log |-> st.log \o << Command("quit", window, FALSE),
                                      Command("killall", window, killed) >> ]
  ELSE IF outcome = "first"
       THEN [ errors |-> st.errors,
              os |-> CloseWindowEffect(st.os, window.appName,
                                       window.systemWindowId),
              log |-> Append(st.log, Command("click", window, TRUE)) ]
       ELSE [ errors |-> st.errors,
              os |-> IF outcome = "second"
                     THEN CloseWindowEffect(st.os, window.appName,
                                            window.systemWindowId)
                     ELSE st.os,
              log |-> st.log \o << Command("click", window, FALSE),
                                   Command("close", window,
                                           outcome = "second") >> ]

\* mutant: the error of a window whose commands all failed ends the loop
RECURSIVE close_StopsAtFailure(_, _, _, _)
close_StopsAtFailure(st, windows, outcomes, k) ==
  IF k > Len(windows) THEN st
  ELSE IF outcomes[k] = "none"
  THEN LET failed == CloseOne(st, windows[k], outcomes[k])
       IN [failed EXCEPT !.errors = Append(@, windows[k].id)]
  ELSE close_StopsAtFailure(CloseOne(st, windows[k], outcomes[k]), windows,
                            outcomes, k + 1)

\* AppLauncher.close: the loop over the windows
RECURSIVE close(_, _, _, _)
close(st, windows, outcomes, k) ==
  IF k > Len(windows) THEN st
  ELSE close(CloseOne(st, windows[k], outcomes[k]), windows, outcomes, k + 1)

\* mutant: the windows are closed as given, without verifying them first
closeWorkspace_NoVerify(o, windows, outcomes) ==
  LET st == close([os |-> o, log |-> <<>>, errors |-> <<>>], windows,
                  outcomes, 1)
  IN IF Len(windows) = 0
     THEN [ os |-> o, result |-> "No windows to close",
            verifiedWindows |-> <<>>, commands |-> <<>> ]
     ELSE [ os |-> st.os, result |-> "Workspace closed successfully",
            verifiedWindows |-> windows, commands |-> st.log ]

\* closeWorkspace(windows): nothing to close; or verify first and stop when
\* nothing is left; or close what is left with the strategy of its type
closeWorkspace(o, windows, outcomes) ==
  LET verifiedWindows == verifyAllWindows(o, windows)
      appWindows == SelectSeq(verifiedWindows, LAMBDA w : w.type = "app")
      st == close([os |-> o, log |-> <<>>, errors |-> <<>>], appWindows,
                  outcomes, 1)
  IN IF Len(windows) = 0
     THEN [ os |-> o, result |-> "No windows to close",
            verifiedWindows |-> <<>>, commands |-> <<>> ]
     ELSE IF Len(verifiedWindows) = 0
     THEN [ os |-> o, result |-> "Workspace already closed",
            verifiedWindows |-> verifiedWindows, commands |-> <<>> ]
     ELSE [ os |-> st.os,
            result |-> IF st.errors = <<>> THEN "Workspace closed successfully"
                       ELSE "Workspace closed with errors",
            verifiedWindows |-> verifiedWindows, commands |-> st.log ]

\* the artifacts a closeWorkspace(windows) with result r leaves closed (a
\* command issued for them succeeded) or already gone (its verification did
\* not return them)
Terminal(windows, r) ==
  { windows[k].id : k \in { j \in DOMAIN windows :
      \/ ~Includes(r.verifiedWindows, windows[j])
      \/ \E c \in DOMAIN r.commands :
           r.commands[c].for = windows[j].id /\ r.commands[c].ok } }

\* the caller closes the list the launch returned; outcomes[k] is how the
\* commands of the k-th window that gets closed end (the verification tells
\* how many outcomes there are to choose)
CloseWorkspace ==
  /\ pc = "idle"
  /\ \E ends \in [1..Len(verifyAllWindows(os, allTrackedWindows)) -> Outcomes] :
       LET outcomes == [k \in DOMAIN allTrackedWindows |->
                          IF k \in DOMAIN ends THEN ends[k] ELSE "first"]
           r == closeWorkspace(os, allTrackedWindows, outcomes)
       IN /\ os' = r.os
          /\ closeReport' = [ ran |-> TRUE, windows |-> allTrackedWindows,
                              aliveAtCall |->
                                verifyAllWindows(os, allTrackedWindows),
                              windowsAtCall |-> os.wins,
                              result |-> r.result,
                              verifiedWindows |-> r.verifiedWindows,
                              commands |-> r.commands,
                              terminatedAtCall |-> terminated ]
          /\ terminated' = terminated \cup Terminal(allTrackedWindows, r)
  /\ lastOp' = "close"
  /\ launchReport' = NoLaunch
  /\ UNCHANGED << nextWindowId, items, pc, groupIdx, finished, beforeStates,
                  trackedWindowsArrays, allTrackedWindows, nextUuid,
                  afterIdsSeen, windowsAtCapture, verified, verifyInput,
                  launchVars, probe, strategyCall, wait, toast,
                  capture, timedExec >>

\* ------------------------------------------------------------ environment
EnvOp == IF pc = "idle" THEN "env" ELSE lastOp

\* the results the caller has in hand are of no use once the machine has
\* changed: they are dropped
Stale ==
  /\ verified' = <<>>
  /\ verifyInput' = <<>>
  /\ closeReport' = NoClose
  /\ launchReport' = NoLaunch

\* a running scriptable application opens a window (its own first window, or
\* one the user opens); window ids are never handed out twice
OpenWindow(appName) ==
  /\ appName \in ScriptableApps
  /\ os.running[appName]
  /\ nextWindowId <= MaxWindowId
  /\ os' = [os EXCEPT !.wins = @ \cup {nextWindowId}]
  /\ nextWindowId' = nextWindowId + 1
  /\ lastOp' = EnvOp
  /\ Stale
  /\ UNCHANGED << items, pc, groupIdx, finished, beforeStates,
                  trackedWindowsArrays, allTrackedWindows, nextUuid,
                  afterIdsSeen, windowsAtCapture, launchVars, probe,
                  strategyCall, wait, toast, terminated,
                  capture, timedExec >>

\* the user closes a window
UserClosesWindow(appName) ==
  /\ appName \in ScriptableApps
  /\ \E w \in os.wins : os' = [os EXCEPT !.wins = @ \ {w}]
  /\ lastOp' = EnvOp
  /\ Stale
  /\ UNCHANGED << nextWindowId, items, pc, groupIdx, finished, beforeStates,
                  trackedWindowsArrays, allTrackedWindows, nextUuid,
                  afterIdsSeen, windowsAtCapture, launchVars, probe,
                  strategyCall, wait, toast, terminated,
                  capture, timedExec >>

\* the user quits an application, or it exits
UserQuits(appName) ==
  /\ os.running[appName]
  /\ os' = [os EXCEPT !.running[appName] = FALSE,
                      !.wins = IF appName \in ScriptableApps THEN {} ELSE @]
  /\ lastOp' = EnvOp
  /\ Stale
  /\ UNCHANGED << nextWindowId, items, pc, groupIdx, finished, beforeStates,
                  trackedWindowsArrays, allTrackedWindows, nextUuid,
                  afterIdsSeen, windowsAtCapture, launchVars, probe,
                  strategyCall, wait, toast, terminated,
                  capture, timedExec >>

\* the scriptable application stops or resumes answering the bridge in time
BridgeChanges(appName) ==
  /\ appName \in ScriptableApps
  /\ os' = [os EXCEPT !.responsive = ~@]
  /\ lastOp' = EnvOp
  /\ Stale
  /\ UNCHANGED << nextWindowId, items, pc, groupIdx, finished, beforeStates,
                  trackedWindowsArrays, allTrackedWindows, nextUuid,
                  afterIdsSeen, windowsAtCapture, launchVars, probe,
                  strategyCall, wait, toast, terminated,
                  capture, timedExec >>

Environment ==
  \E appName \in Apps :
    \/ OpenWindow(appName)
    \/ UserClosesWindow(appName)
    \/ UserQuits(appName)
    \/ BridgeChanges(appName)

Launch ==
  \/ AwaitDelay
  \/ \E i \in DOMAIN items : CaptureBefore(i)
  \/ Phase1Barrier
  \/ \E i \in DOMAIN items : LaunchOnly(i)
  \/ Phase2Barrier
  \/ SettleElapsed
  \/ \E i \in DOMAIN items : CaptureAfter(i)
  \/ CollectResults
  \/ \E i \in DOMAIN items : LaunchOther(i)
  \/ OthersBarrier

Next == Launch \/ Verify \/ CloseWorkspace \/ Environment

Spec == Init /\ [][Next]_vars

\* launchWorkspace and the machine, up to the return; every step of
\* launchWorkspace is a timer that fires or a call that returns, so it is
\* always taken in the end
MachineDuringLaunch == pc # "idle" /\ Environment

LaunchNext == Launch \/ MachineDuringLaunch

\* the workspaces the launch is followed to its end for: those with at most
\* one application item, and the scenario
FairWorkspaces ==
  { its \in Workspaces :
      \/ Cardinality({ i \in DOMAIN its : its[i].type = "app" }) <= 1
      \/ its = ScenarioItems }

FairInit == Init /\ items \in FairWorkspaces

FairSpec == FairInit /\ [][LaunchNext]_vars /\ WF_vars(Launch)

\* ------------------------------------------------------ a probe on its own
\* what a child process can print: up to two tokens, numbers or not
ProbeStdouts ==
  UNION { [1..n -> WindowIds \cup {NaN}] : n \in 0..2 }

ExecResults == [outcome : ExecOutcomes, stdout : ProbeStdouts]

ProbeCalls == {"isAppRunning", "getWindowIds", "getWindowTitle"}

ProbeResult(call, r) ==
  IF call = "isAppRunning" THEN isAppRunningResult(r)
  ELSE IF call = "getWindowIds" THEN getWindowIdsResult(r)
  ELSE getWindowTitleResult(r)

ProbeInit ==
  /\ items = <<>>
  /\ os = [ running |-> [appName \in Apps |-> FALSE], wins |-> {},
            responsive |-> TRUE ]
  /\ nextWindowId = 1
  /\ pc = "idle"
  /\ groupIdx = 1
  /\ finished = {}
  /\ beforeStates = <<>>
  /\ trackedWindowsArrays = <<>>
  /\ allTrackedWindows = <<>>
  /\ nextUuid = 1
  /\ afterIdsSeen = <<>>
  /\ windowsAtCapture = <<>>
  /\ verified = <<>>
  /\ verifyInput = <<>>
  /\ closeReport = NoClose
  /\ lastOp = "start"
  /\ progress = <<>>
  /\ launchFailed = {}
  /\ otherResults = <<>>
  /\ elapsedMs = 0
  /\ launchedAt = 0
  /\ launchReport = NoLaunch
  /\ probe = NoProbe
  /\ strategyCall = NoCall
  /\ wait = NoWait
  /\ toast = <<>>
  /\ terminated = {}
  /\ capture = NoCapture
  /\ timedExec = NoExec

\* one probe is called and its child process ends as r; the pgrep of
\* isAppRunning is run without a time limit, so it ends by itself
RunProbe(call, r) ==
  /\ call = "isAppRunning" => r.outcome # "timeout"
  /\ probe' = [call |-> call, exec |-> r, result |-> ProbeResult(call, r)]
  /\ UNCHANGED << os, nextWindowId, items, pc, groupIdx, finished,
                  beforeStates, trackedWindowsArrays, allTrackedWindows,
                  nextUuid, afterIdsSeen, windowsAtCapture, verified,
                  verifyInput, closeReport, lastOp, launchVars,
                  launchReport, strategyCall, wait, toast, terminated,
                  capture, timedExec >>

ProbeNext == \E call \in ProbeCalls : \E r \in ExecResults : RunProbe(call, r)

ProbeSpec == ProbeInit /\ [][ProbeNext]_vars

\* ------------------------------------------- the other strategies on their own
\* A text is the list of its pieces: a piece is one character the shell
\* gives a meaning to (single quote, backslash, blank, semicolon) or a run of
\* characters it gives none.  The pieces a path, url or command text is made
\* of here: a letter and each of the four characters.
Chars == {"a", "'", "\\", " ", ";"}

Texts == UNION { [1..n -> Chars] : n \in 0..MaxLen }

OtherTypes == {"file", "folder", "url", "terminal"}

StrategyItem == [type : OtherTypes, path : Texts]

\* text.replace(/ch/g, by)
RECURSIVE Replace(_, _, _)
Replace(text, ch, by) ==
  IF text = <<>> THEN <<>>
  ELSE (IF Head(text) = ch THEN by ELSE <<Head(text)>>)
       \o Replace(Tail(text), ch, by)

\* what /bin/sh makes of a command line: its commands, each the list of its
\* words.  Between single quotes every character stands for itself; outside
\* them a backslash makes the next character stand for itself, blanks part
\* the words and a semicolon ends the command.
RECURSIVE ShellParse(_, _, _, _, _, _)
ShellParse(rest, word, inWord, quoted, words, commands) ==
  LET wordsDone == IF inWord THEN Append(words, word) ELSE words
      commandsDone == IF wordsDone = <<>> THEN commands
                      ELSE Append(commands, wordsDone)
  IN IF rest = <<>> THEN commandsDone
     ELSE IF quoted
     THEN IF Head(rest) = "'"
          THEN ShellParse(Tail(rest), word, TRUE, FALSE, words, commands)
          ELSE ShellParse(Tail(rest), Append(word, Head(rest)), TRUE, TRUE,
                          words, commands)
     ELSE IF Head(rest) = "'"
     THEN ShellParse(Tail(rest), word, TRUE, TRUE, words, commands)
     ELSE IF Head(rest) = "\\"
     THEN IF Tail(rest) = <<>>
          THEN ShellParse(<<>>, word, inWord, FALSE, words, commands)
          ELSE ShellParse(Tail(Tail(rest)), Append(word, rest[2]), TRUE,
                          FALSE, words, commands)
     ELSE IF Head(rest) = " "
     THEN ShellParse(Tail(rest), <<>>, FALSE, FALSE, wordsDone, commands)
     ELSE IF Head(rest) = ";"
     THEN ShellParse(Tail(rest), <<>>, FALSE, FALSE, <<>>, commandsDone)
     ELSE ShellParse(Tail(rest), Append(word, Head(rest)), TRUE, FALSE,
                     words, commands)

ShellCommands(line) == ShellParse(line, <<>>, FALSE, FALSE, <<>>, <<>>)

Osascript == <<"osascript">>

DashE == <<"-e">>

\* the script of TerminalLauncher.launch, cut down to its "do script" line
TerminalScript ==
  <<"do", " ", "script", " ", "(item", " ", "1", " ", "of", " ", "argv)">>

\* mutant: the command text is written into the script
TerminalCommandLine_InScript(path) ==
  Osascript \o <<" ">> \o DashE \o <<" ", "'">>
    \o Replace(<<"do", " ", "script", " ">> \o path,
               "'", <<"'", "\\", "'", "'">>)
    \o <<"'">>

\* `osascript -e '${escapedScript}' '${item.path.replace(/'/g, "'\\''")}'`
TerminalCommandLine(path) ==
  Osascript \o <<" ">> \o DashE \o <<" ", "'">>
    \o Replace(TerminalScript, "'", <<"'", "\\", "'", "'">>)
    \o <<"'", " ", "'">>
    \o Replace(path, "'", <<"'", "\\", "'", "'">>)
    \o <<"'">>

\* the script of FileLauncher.close, cut down to its "close" line; the path
\* is written into it
FinderScript(path) ==
  <<"close", " ">> \o Replace(path, "\"", <<"\\", "\"">>)

\* a process the strategy starts, or a call of open(): its words, how it ends
Exec(argv, ok) == [argv |-> argv, ok |-> ok]

\* what a launch or close of a strategy did: the commands it issued, whether
\* it threw, and the artifacts it returned (none: Promise<void>)
Done(commands, threw) ==
  [commands |-> commands, threw |-> threw, returned |-> <<>>]

\* UrlLauncher.launch: open(item.path)
UrlLaunch(item, ok) ==
  Done(<< Exec(<< <<"open">>, item.path >>, ok) >>, ~ok)

\* TerminalLauncher.launch: the shell runs the command line
TerminalLaunch(item, ok) ==
  LET commands == ShellCommands(TerminalCommandLine(item.path))
  IN Done([k \in DOMAIN commands |-> Exec(commands[k], ok)], ~ok)

\* FileLauncher.launch: existsSync(item.path), then open(item.path)
FileLaunch(item, exists, ok) ==
  IF ~exists THEN Done(<<>>, TRUE)
  ELSE Done(<< Exec(<< <<"open">>, item.path >>, ok) >>, ~ok)

\* mutant: the error of the close command is thrown on
FileClose_Throws(item, ok) ==
  Done(<< Exec(<< Osascript, DashE, FinderScript(item.path) >>, ok) >>, ~ok)

\* FileLauncher.close: the script closes the Finder windows of the path; an
\* error is caught and logged
FileClose(item, ok) ==
  Done(<< Exec(<< Osascript, DashE, FinderScript(item.path) >>, ok) >>, FALSE)

\* UrlLauncher.close and TerminalLauncher.close: empty
NoClosing(item) == Done(<<>>, FALSE)

\* one item is launched by the strategy of its type (one call is looked at)
StrategyLaunch(item, exists, ok) ==
  /\ strategyCall = NoCall
  /\ strategyCall' =
       [ op |-> "launch", item |-> item,
         result |-> IF item.type = "url" THEN UrlLaunch(item, ok)
                    ELSE IF item.type = "terminal"
                    THEN TerminalLaunch(item, ok)
                    ELSE FileLaunch(item, exists, ok) ]
  /\ UNCHANGED << os, nextWindowId, items, pc, groupIdx, finished,
                  beforeStates, trackedWindowsArrays, allTrackedWindows,
                  nextUuid, afterIdsSeen, windowsAtCapture, verified,
                  verifyInput, closeReport, lastOp, launchVars,
                  launchReport, probe, wait, toast, terminated,
                  capture, timedExec >>

\* one item is closed by the strategy of its type
StrategyClose(item, ok) ==
  /\ strategyCall = NoCall
  /\ strategyCall' =
       [ op |-> "close", item |-> item,
         result |-> IF item.type \in {"url", "terminal"} THEN NoClosing(item)
                    ELSE FileClose(item, ok) ]
  /\ UNCHANGED << os, nextWindowId, items, pc, groupIdx, finished,
                  beforeStates, trackedWindowsArrays, allTrackedWindows,
                  nextUuid, afterIdsSeen, windowsAtCapture, verified,
                  verifyInput, closeReport, lastOp, launchVars,
                  launchReport, probe, wait, toast, terminated,
                  capture, timedExec >>

StrategyNext ==
  /\ strategyCall = NoCall
  /\ \E item \in StrategyItem : \E exists \in BOOLEAN : \E ok \in BOOLEAN :
       \/ StrategyLaunch(item, exists, ok)
       \/ StrategyClose(item, ok)

StrategySpec == ProbeInit /\ [][StrategyNext]_vars

\* ------------------------------------- the wait of captureAfterState alone
\* Math.ceil(maxWaitMs / pollInterval)
maxAttempts == (MaxWaitMs + PollIntervalMs - 1) \div PollIntervalMs

\* what isAppRunning answers at each poll there can be
PollAnswers == [1..maxAttempts -> BOOLEAN]

\* mutant: the windows are given their time after the last poll as well
RECURSIVE waitForAppToLaunch_AlwaysSettles(_, _, _)
waitForAppToLaunch_AlwaysSettles(answers, i, timers) ==
  IF i > maxAttempts
  THEN [polled |-> maxAttempts, timers |-> Append(timers, WindowSettleMs)]
  ELSE IF answers[i]
  THEN [polled |-> i, timers |-> Append(timers, WindowSettleMs)]
  ELSE waitForAppToLaunch_AlwaysSettles(answers, i + 1,
                                        Append(timers, PollIntervalMs))

\* waitForAppToLaunch from its i-th poll on: the polls made and the timers
\* awaited when it returns
RECURSIVE waitForAppToLaunch(_, _, _)
waitForAppToLaunch(answers, i, timers) ==
  IF i > maxAttempts
  THEN [polled |-> maxAttempts, timers |-> timers]
  ELSE IF answers[i]
  THEN [polled |-> i, timers |-> Append(timers, WindowSettleMs)]
  ELSE waitForAppToLaunch(answers, i + 1, Append(timers, PollIntervalMs))

\* the wait at the start of captureAfterState
WaitForApp(wasRunning, answers) ==
  IF ~wasRunning THEN waitForAppToLaunch(answers, 1, <<>>)
  ELSE [polled |-> 0, timers |-> <<WindowSettleMs>>]

\* one captureAfterState waits; then it queries the window ids
RunWait(wasRunning, answers) ==
  /\ wait = NoWait
  /\ wait' = [ ran |-> TRUE, wasRunning |-> wasRunning, answers |-> answers,
               result |-> WaitForApp(wasRunning, answers) ]
  /\ UNCHANGED << os, nextWindowId, items, pc, groupIdx, finished,
                  beforeStates, trackedWindowsArrays, allTrackedWindows,
                  nextUuid, afterIdsSeen, windowsAtCapture, verified,
                  verifyInput, closeReport, lastOp, launchVars,
                  launchReport, probe, strategyCall, toast, terminated,
                  capture, timedExec >>

WaitNext ==
  /\ wait = NoWait
  /\ \E wasRunning \in BOOLEAN : \E answers \in PollAnswers :
       RunWait(wasRunning, answers)

WaitSpec == ProbeInit /\ [][WaitNext]_vars

\* ------------------------------------ one application captured on its own
\* the window ids a machine can report: 0 is a number like any other
ReportedIds == 0..MaxWindowId

\* what the machine is for the one application: whether its process runs,
\* the windows it has, whether it answers the bridge in time
CaptureMachines ==
  { m \in [running : BOOLEAN, wins : SUBSET ReportedIds, responsive : BOOLEAN] :
      ~m.running => (m.wins = {} /\ m.responsive) }

MachineOf(appName, m) ==
  [ running |-> [a \in Apps |-> a = appName /\ m.running],
    wins |-> m.wins, responsive |-> m.responsive ]

\* how a title script ends
TitleExecs == [outcome : ExecOutcomes, stdout : {<<>>, <<"title">>}]

\* the poll of waitForAppToLaunch that finds the process first: none, the
\* first, the last
PollStarts == {0, 1, maxAttempts}

FoundAt(k) == [i \in 1..maxAttempts |-> k # 0 /\ i >= k]

\* the pgrep of isAppRunning on machine o, or a child process that fails
PgrepOf(o, appName, pgrepFails) ==
  IF pgrepFails THEN [outcome |-> "error", stdout |-> <<>>]
  ELSE Pgrep(o, appName)

\* captureBeforeState on the results of its two probes
BeforeLaunchState(i, appName, pgrep, ids) ==
  [ kind |-> "state", item |-> i,
    wasRunning |-> isAppRunningResult(pgrep).value,
    windowIdsBefore |-> getWindowIdsResult(ids).value,
    appName |-> appName ]

\* captureAfterState as a whole: the wait, the ids, the title queries (one
\* getWindowTitle per new id under Promise.all: a query that rejects makes
\* the call reject), and the artifacts with their windowTitle
captureAfterStateCall(before, answers, afterIds, titleExecs, uuid) ==
  LET newWindowIds == NewWindowIds(afterIds, before.windowIdsBefore)
      titles == [k \in DOMAIN newWindowIds |->
                   getWindowTitleResult(titleExecs[k])]
      tracked == captureAfterState(before, afterIds, uuid)
      rejected == \E k \in DOMAIN titles : titles[k].threw
  IN [ wait |-> WaitForApp(before.wasRunning, answers),
       titleQueries |-> newWindowIds,
       threw |-> rejected,
       tracked |-> IF rejected THEN <<>> ELSE tracked,
       windowTitle |->
         IF rejected THEN <<>>
         ELSE [k \in DOMAIN tracked |->
                 IF tracked[k].trackingMode = "window" THEN titles[k].value
                 ELSE <<before.appName>>] ]

\* one application is captured before and after its launch: mBefore and
\* mAfter are the machine at the two captures, k the poll that finds the
\* process, titleExecs how the title scripts end
RunCapture(appName, mBefore, pgrepFails, k, mAfter, titleExecs) ==
  LET oBefore == MachineOf(appName, mBefore)
      oAfter == MachineOf(appName, mAfter)
      before == BeforeLaunchState(1, appName,
                                  PgrepOf(oBefore, appName, pgrepFails),
                                  IdsScript(oBefore, appName))
      afterIds == getWindowIds(oAfter, appName)
  IN /\ capture = NoCapture
     /\ capture' =
          [ ran |-> TRUE, appName |-> appName, machineBefore |-> mBefore,
            pgrepFails |-> pgrepFails, before |-> before,
            answers |-> FoundAt(k), machineAfter |-> mAfter,
            afterIds |-> afterIds, titleExecs |-> titleExecs,
            result |-> captureAfterStateCall(before, FoundAt(k), afterIds,
                                             titleExecs, 1),
            close |-> NoClose ]
     /\ UNCHANGED << os, nextWindowId, items, pc, groupIdx, finished,
                     beforeStates, trackedWindowsArrays, allTrackedWindows,
                     nextUuid, afterIdsSeen, windowsAtCapture, verified,
                     verifyInput, closeReport, lastOp, launchVars,
                     launchReport, probe, strategyCall, wait, toast,
                     terminated, timedExec >>

\* the caller closes what the capture returned, on the machine as it was at
\* the capture-after
CloseCaptured(outcomes) ==
  LET r == closeWorkspace(MachineOf(capture.appName, capture.machineAfter),
                          capture.result.tracked, outcomes)
  IN /\ capture # NoCapture
     /\ ~capture.close.ran
     /\ capture' =
          [capture EXCEPT !.close =
             [ ran |-> TRUE, result |-> r.result,
               verifiedWindows |-> r.verifiedWindows,
               commands |-> r.commands ]]
     /\ UNCHANGED << os, nextWindowId, items, pc, groupIdx, finished,
                     beforeStates, trackedWindowsArrays, allTrackedWindows,
                     nextUuid, afterIdsSeen, windowsAtCapture, verified,
                     verifyInput, closeReport, lastOp, launchVars,
                     launchReport, probe, strategyCall, wait, toast,
                     terminated, timedExec >>

CaptureNext ==
  \/ /\ capture = NoCapture
     /\ \E appName \in Apps : \E mBefore \in CaptureMachines :
        \E pgrepFails \in BOOLEAN : \E k \in PollStarts :
        \E mAfter \in CaptureMachines :
        \E titleExecs \in
             [1..Len(NewWindowIds(
                       getWindowIds(MachineOf(appName, mAfter), appName),
                       getWindowIds(MachineOf(appName, mBefore), appName)))
                -> TitleExecs] :
          RunCapture(appName, mBefore, pgrepFails, k, mAfter, titleExecs)
  \/ /\ capture # NoCapture
     /\ \E outcomes \in [1..Len(capture.result.tracked) -> {"first"}] :
          CloseCaptured(outcomes)

CaptureSpec == ProbeInit /\ [][CaptureNext]_vars

\* ------------------------------------------ one call of execWithTimeout
\* The call sets the timer and starts the child process in one go; after
\* that the event loop runs the timer callback and the callback of exec in
\* any order.  r is what the command does by itself: it ends with its
\* output ("ok"), ends with an error, or does not end ("timeout").
ExecStart(r) ==
  /\ timedExec = NoExec
  /\ timedExec' = [ started |-> TRUE, command |-> r, resolved |-> FALSE,
                    timer |-> "set", childProcess |-> "running",
                    killCalled |-> FALSE, callback |-> "none",
                    error |-> FALSE, first |-> "none", settled |-> <<>> ]
  /\ UNCHANGED << os, nextWindowId, items, pc, groupIdx, finished,
                  beforeStates, trackedWindowsArrays, allTrackedWindows,
                  nextUuid, afterIdsSeen, windowsAtCapture, verified,
                  verifyInput, closeReport, lastOp, launchVars,
                  launchReport, probe, strategyCall, wait, toast,
                  terminated, capture >>

\* the child process ends by itself: its callback is queued with its error
\* or its output
ExecChildEnds ==
  /\ timedExec.started
  /\ timedExec.childProcess = "running"
  /\ timedExec.command.outcome # "timeout"
  /\ timedExec' = [timedExec EXCEPT
                     !.childProcess = "exited",
                     !.callback = "pending",
                     !.error = timedExec.command.outcome = "error"]
  /\ UNCHANGED << os, nextWindowId, items, pc, groupIdx, finished,
                  beforeStates, trackedWindowsArrays, allTrackedWindows,
                  nextUuid, afterIdsSeen, windowsAtCapture, verified,
                  verifyInput, closeReport, lastOp, launchVars,
                  launchReport, probe, strategyCall, wait, toast,
                  terminated, capture >>

\* the timer callback: if (!resolved) { resolved = true; kill; resolve("") };
\* a child process that is killed ends with an error
ExecTimerFires ==
  /\ timedExec.started
  /\ timedExec.timer = "set"
  /\ timedExec' =
       IF timedExec.resolved THEN [timedExec EXCEPT !.timer = "fired"]
       ELSE [timedExec EXCEPT
               !.timer = "fired",
               !.resolved = TRUE,
               !.killCalled = TRUE,
               !.childProcess = IF @ = "running" THEN "killed" ELSE @,
               !.callback = IF timedExec.childProcess = "running"
                            THEN "pending" ELSE @,
               !.error = IF timedExec.childProcess = "running"
                         THEN TRUE ELSE @,
               !.first = "timer",
               !.settled = Append(@, [kind |-> "resolve", value |-> <<>>])]
  /\ UNCHANGED << os, nextWindowId, items, pc, groupIdx, finished,
                  beforeStates, trackedWindowsArrays, allTrackedWindows,
                  nextUuid, afterIdsSeen, windowsAtCapture, verified,
                  verifyInput, closeReport, lastOp, launchVars,
                  launchReport, probe, strategyCall, wait, toast,
                  terminated, capture >>

\* mutant: the callback of exec does not look at resolved
ExecCallback_NoGuard ==
  /\ timedExec.started
  /\ timedExec.callback = "pending"
  /\ timedExec' =
       [timedExec EXCEPT
          !.callback = "delivered",
          !.resolved = TRUE,
          !.timer = IF @ = "set" THEN "cleared" ELSE @,
          !.first = IF @ = "none" THEN "callback" ELSE @,
          !.settled =
            Append(@, [kind |-> "resolve",
                       value |-> IF timedExec.error THEN <<>>
                                 ELSE timedExec.command.stdout])]
  /\ UNCHANGED << os, nextWindowId, items, pc, groupIdx, finished,
                  beforeStates, trackedWindowsArrays, allTrackedWindows,
                  nextUuid, afterIdsSeen, windowsAtCapture, verified,
                  verifyInput, closeReport, lastOp, launchVars,
                  launchReport, probe, strategyCall, wait, toast,
                  terminated, capture >>

\* the callback of exec: if (!resolved) { resolved = true; clearTimeout;
\* resolve(error ? "" : stdout) }
ExecCallback ==
  /\ timedExec.started
  /\ timedExec.callback = "pending"
  /\ timedExec' =
       IF timedExec.resolved THEN [timedExec EXCEPT !.callback = "delivered"]
       ELSE [timedExec EXCEPT
               !.callback = "delivered",
               !.resolved = TRUE,
               !.timer = "cleared",
               !.first = "callback",
               !.settled =
                 Append(@, [kind |-> "resolve",
                            value |-> IF timedExec.error THEN <<>>
                                      ELSE timedExec.command.stdout])]
  /\ UNCHANGED << os, nextWindowId, items, pc, groupIdx, finished,
                  beforeStates, trackedWindowsArrays, allTrackedWindows,
                  nextUuid, afterIdsSeen, windowsAtCapture, verified,
                  verifyInput, closeReport, lastOp, launchVars,
                  launchReport, probe, strategyCall, wait, toast,
                  terminated, capture >>

ExecNext ==
  \/ \E r \in ExecResults : ExecStart(r)
  \/ ExecChildEnds
  \/ ExecTimerFires
  \/ ExecCallback

\* a timer that is set and not cleared fires; a callback that is queued runs
ExecSpec ==
  ProbeInit /\ [][ExecNext]_vars
    /\ WF_vars(ExecTimerFires) /\ WF_vars(ExecCallback)

\* ================================================================== claims
\* the items whose capture-after has run in the launch under way
Captured == { i \in DOMAIN afterIdsSeen : afterIdsSeen[i].ran }

\* the ids item i read after the launch minus the ids it read before
NewIdSet(i) ==
  Range(afterIdsSeen[i].afterIds) \ Range(beforeStates[i].windowIdsBefore)

SystemWindowIds(windows) == { windows[k].systemWindowId : k \in DOMAIN windows }

C1_Witness ==
  \E i \in Captured :
    /\ Cardinality(NewIdSet(i)) >= 1
    /\ beforeStates[i].windowIdsBefore # <<>>

C2_AppLevelTracked ==
  \A i \in Captured :
    (~beforeStates[i].wasRunning /\ NewIdSet(i) = {}) =>
      LET tracked == trackedWindowsArrays[i]
      IN /\ Len(tracked) = 1
         /\ tracked[1].trackingMode = "app"
         /\ tracked[1].systemWindowId = 0

C2_Witness ==
  \E i \in Captured : ~beforeStates[i].wasRunning /\ NewIdSet(i) = {}

\* C3: an application item that was already running before the launch and
\* shows no new window id gets no artifact.
C3_AlreadyRunningNotTracked ==
  \A i \in Captured :
    (beforeStates[i].wasRunning /\ NewIdSet(i) = {}) =>
      trackedWindowsArrays[i] = <<>>

C3_Witness ==
  \E i \in Captured :
    /\ beforeStates[i].wasRunning
    /\ NewIdSet(i) = {}
    /\ afterIdsSeen[i].afterIds # <<>>

\* C4: in every list launchWorkspace returns, and in every list verify or
\* close is given or returns, an artifact of mode app has the sentinel
\* systemWindowId 0.
AppModeHasSentinel(windows) ==
  \A k \in DOMAIN windows :
    windows[k].trackingMode = "app" => windows[k].systemWindowId = 0

C4_AppModeSentinel ==
  /\ AppModeHasSentinel(allTrackedWindows)
  /\ AppModeHasSentinel(verifyInput)
  /\ AppModeHasSentinel(verified)
  /\ closeReport.ran => /\ AppModeHasSentinel(closeReport.windows)
                        /\ AppModeHasSentinel(closeReport.verifiedWindows)

C4_Witness ==
  /\ pc = "idle"
  /\ \E k \in DOMAIN allTrackedWindows : allTrackedWindows[k].trackingMode = "app"
  /\ \E k \in DOMAIN allTrackedWindows : allTrackedWindows[k].trackingMode = "window"

\* C5: every artifact of a launch either has a systemWindowId that was not in
\* its item's windowIdsBefore, or is an app-mode artifact of an item that was
\* not running and showed no new window id; and no artifact is created for a
\* window that was open before the launch.
C5_OnlyNewStateTracked ==
  \A i \in Captured :
    \A k \in DOMAIN trackedWindowsArrays[i] :
      LET w == trackedWindowsArrays[i][k]
      IN /\ \/ /\ w.trackingMode = "window"
               /\ ~Includes(beforeStates[i].windowIdsBefore, w.systemWindowId)
            \/ /\ w.trackingMode = "app"
               /\ ~beforeStates[i].wasRunning
               /\ NewIdSet(i) = {}
         /\ w.trackingMode = "window" => w.systemWindowId \notin windowsAtCapture[i]

\* the part of C5 that is about the ids the item read: it holds
C5_NotInWindowIdsBefore ==
  \A i \in Captured :
    \A k \in DOMAIN trackedWindowsArrays[i] :
      LET w == trackedWindowsArrays[i][k]
      IN \/ /\ w.trackingMode = "window"
            /\ ~Includes(beforeStates[i].windowIdsBefore, w.systemWindowId)
         \/ /\ w.trackingMode = "app"
            /\ ~beforeStates[i].wasRunning
            /\ NewIdSet(i) = {}


\* ------------------------------------------------------------ close, verify
Ids(windows) == { windows[k].id : k \in DOMAIN windows }

IssuedFor(commands) == { commands[k].for : k \in DOMAIN commands }

\* C6: closeWorkspace verifies the artifacts it is given before it issues a
\* command, issues close and quit commands only for artifacts the
\* verification returned, and when the verification returns nothing it issues
\* no command and ends as the success "already closed".
C6_CloseVerifiesFirst ==
  closeReport.ran =>
    /\ IssuedFor(closeReport.commands) \subseteq Ids(closeReport.aliveAtCall)
    /\ (Len(closeReport.windows) > 0 /\ closeReport.aliveAtCall = <<>>) =>
         /\ closeReport.commands = <<>>
         /\ closeReport.result = "Workspace already closed"

C6_Witness ==
  /\ closeReport.ran
  /\ closeReport.commands # <<>>
  /\ Len(closeReport.aliveAtCall) < Len(closeReport.windows)

C6_WitnessAlreadyClosed ==
  /\ closeReport.ran
  /\ Len(closeReport.windows) > 0
  /\ closeReport.aliveAtCall = <<>>

\* C7: close issues window-close commands only for (process, window id) of a
\* window-mode artifact it was given and quits only processes that have an
\* app-mode artifact in the list; the other windows of a process that has no
\* app-mode artifact stay open.
WindowCommands == {"click", "close"}
QuitCommands == {"quit", "killall"}

C7_CloseOnlyTracked ==
  closeReport.ran =>
    /\ \A k \in DOMAIN closeReport.commands :
         LET c == closeReport.commands[k]
         IN \E j \in DOMAIN closeReport.windows :
              LET w == closeReport.windows[j]
              IN /\ w.appName = c.appName
                 /\ c.cmd \in WindowCommands =>
                      /\ w.trackingMode = "window"
                      /\ w.systemWindowId = c.systemWindowId
                 /\ c.cmd \in QuitCommands => w.trackingMode = "app"
    /\ \A appName \in ScriptableApps :
         (/\ lastOp = "close"
          /\ ~\E j \in DOMAIN closeReport.windows :
                /\ closeReport.windows[j].appName = appName
                /\ closeReport.windows[j].trackingMode = "app")
         => (closeReport.windowsAtCall \ SystemWindowIds(closeReport.windows))
              \subseteq os.wins

C7_Witness ==
  /\ closeReport.ran
  /\ lastOp = "close"
  /\ \E k \in DOMAIN closeReport.commands :
       closeReport.commands[k].cmd \in WindowCommands /\ closeReport.commands[k].ok
  /\ \E j \in DOMAIN closeReport.windows : closeReport.windows[j].trackingMode = "app"
  /\ os.wins # {}
  /\ os.wins \cap SystemWindowIds(closeReport.windows) = {}

ClosedOk(commands) == { commands[k].for : k \in { j \in DOMAIN commands : commands[j].ok } }

C9_VerifyIdempotent ==
  [][ (/\ lastOp \in VerifyOps
       /\ lastOp' = "verifyAfterVerify"
       /\ verifyInput' \in {verifyInput, verified})
      => verified' = verified ]_vars

C9_Witness ==
  /\ lastOp = "verifyAfterVerify"
  /\ verifyInput = verified
  /\ verified # <<>>
  /\ Len(verified) < Len(allTrackedWindows)

\* C10: verify returns none of the artifacts of a process that is not
\* running; of a running process it returns every app-mode artifact, and a
\* window-mode artifact exactly when its systemWindowId is among the window
\* ids the process reports now.
StillExists(o, w) ==
  /\ isAppRunning(o, w.appName)
  /\ \/ w.trackingMode = "app"
     \/ /\ w.trackingMode = "window"
        /\ Includes(getWindowIds(o, w.appName), w.systemWindowId)

C10_VerifyPerProcess ==
  lastOp \in VerifyOps =>
    /\ \A k \in DOMAIN verifyInput :
         Includes(verified, verifyInput[k]) <=> StillExists(os, verifyInput[k])
    /\ \A k \in DOMAIN verified : Includes(verifyInput, verified[k])
    /\ Len(verified) <= Len(verifyInput)

C10_Witness ==
  /\ lastOp \in VerifyOps
  /\ \E k \in DOMAIN verified : verified[k].trackingMode = "app"
  /\ \E k \in DOMAIN verifyInput :
       /\ verifyInput[k].trackingMode = "window"
       /\ isAppRunning(os, verifyInput[k].appName)
       /\ ~Includes(verified, verifyInput[k])

\* ------------------------------------------------------- launch, in order
AppPhases == {"delay", "phase1", "phase2", "settle", "phase3"}

\* the least time the groups before the g-th have taken: each its delay and
\* its settle wait
RECURSIVE Completed(_)
Completed(g) ==
  IF g = 1 THEN 0 ELSE Completed(g - 1) + sortedDelays[g - 1] + SettleMs

C12_PhaseBarriers ==
  pc \in AppPhases =>
    /\ (\E i \in Group(groupIdx) : progress[i] \in {"launched", "after"}) =>
         \A j \in Group(groupIdx) : progress[j] # "pending"
    /\ (\E i \in Group(groupIdx) : progress[i] = "after") =>
         /\ \A j \in Group(groupIdx) : progress[j] \in {"launched", "after"}
         /\ elapsedMs >= launchedAt + SettleMs

C12_Witness ==
  /\ pc = "phase3"
  /\ \E i, j \in Group(groupIdx) :
       /\ progress[i] = "after"
       /\ progress[j] = "launched"
       /\ beforeStates[j].kind = "null"

\* the artifacts the items of a launch produced, item by item
Produced(report) ==
  Flatten([i \in DOMAIN report.items |->
             report.arrays[i] \o
               (IF report.others[i].success THEN report.others[i].windows
                ELSE <<>>)])

C13_WitnessUnknownType ==
  /\ launchReport.ran
  /\ \E i \in DOMAIN launchReport.items :
       /\ launchReport.others[i].done
       /\ launchReport.others[i].error.kind = "Unknown item type"
  /\ launchReport.returned # <<>>

\* C14: the summary gives successCount/total with successCount the number of
\* items whose launch did not fail, and when the launch of an item failed it
\* is a failure summary with the message of a failure.
C14_SummaryCountsFailures ==
  launchReport.ran =>
    /\ launchReport.summary.total = Len(launchReport.items)
    /\ launchReport.summary.successCount =
         Len(launchReport.items) - Cardinality(launchReport.launchFailed)
    /\ launchReport.launchFailed # {} =>
         /\ launchReport.summary.style = "failure"
         /\ launchReport.summary.message.item \in launchReport.launchFailed

\* the window ids item i of a finished launch got new
NewIdsIn(report, i) ==
  Range(report.after[i].afterIds) \ Range(report.before[i].windowIdsBefore)

C16_OtherDelayHonoured ==
  pc # "idle" =>
    \A i \in otherItems :
      progress[i] = "launched" => elapsedMs >= items[i].delay

\* C17 as stated: no barrier between the other items and the delay groups,
\* a non-application item that is not launched yet can be launched at any
\* point of the launch.
C17_NoBarrier ==
  pc # "idle" =>
    \A i \in otherItems : progress[i] = "pending" => ENABLED LaunchOther(i)

\* C17 amended: the other items are a group without a barrier among
\* themselves (once the group has started each of its items can be launched
\* whatever the others did), and the group starts when every application
\* item has finished its capture-after.
C17_OthersAfterBuckets ==
  pc # "idle" =>
    /\ \A i \in otherItems :
         progress[i] = "launched" =>
           /\ pc = "others"
           /\ \A j \in appItems : progress[j] = "after"
    /\ pc = "others" =>
         \A i \in otherItems :
           progress[i] = "pending" => ENABLED LaunchOther(i)

C17_Witness ==
  /\ pc = "others"
  /\ appItems # {}
  /\ \E i \in otherItems : progress[i] = "launched"

Count(seq, x) == Cardinality({ k \in DOMAIN seq : seq[k] = x })

NoInformation(call) ==
  IF call = "isAppRunning" THEN FALSE
  ELSE IF call = "getWindowIds" THEN <<>>
  ELSE <<"undefined">>

C21_OtherItemsInert ==
  strategyCall.op # "none" =>
    /\ strategyCall.item.type \in {"url", "terminal"} =>
          /\ strategyCall.result.returned = <<>>
          /\ strategyCall.op = "close" =>
                /\ strategyCall.result.commands = <<>>
                /\ ~strategyCall.result.threw
    /\ (strategyCall.item.type \in {"file", "folder"}
          /\ strategyCall.op = "close") =>
          /\ Len(strategyCall.result.commands) = 1
          /\ ~strategyCall.result.threw

\* the close command of a folder item has failed
C21_Witness ==
  /\ strategyCall.op = "close"
  /\ strategyCall.item.type = "folder"
  /\ strategyCall.result.commands # <<>>
  /\ ~strategyCall.result.commands[1].ok

\* a url item has been closed
C21_WitnessUrl ==
  /\ strategyCall.op = "close"
  /\ strategyCall.item.type = "url"
  /\ strategyCall.item.path # <<>>

\* the items of a returned launch whose launchItem threw
FailedOthers(report) ==
  { i \in DOMAIN report.items :
      report.others[i].done /\ ~report.others[i].success }

Artifacts ==
  Range(allTrackedWindows) \cup
    UNION { Range(trackedWindowsArrays[i]) : i \in DOMAIN trackedWindowsArrays }

\* C23: an artifact that a close has left closed or already gone stays so: no
\* later verify returns it and no later close issues a command for it; and
\* the identifiers of the artifacts are all different, each one handed out
\* before the next one that will be.
C23_TerminalIsFinal ==
  /\ lastOp \in VerifyOps => Ids(verified) \cap terminated = {}
  /\ closeReport.ran =>
       IssuedFor(closeReport.commands) \cap closeReport.terminatedAtCall = {}
  /\ \A a, b \in Artifacts : a.id = b.id => a = b
  /\ \A a \in Artifacts : a.id < nextUuid

\* ------------------------------------------------------------ the progress
\* C24: by the return the toast has shown one progress message per item,
\* each with the count of successes so far out of the number of items, and
\* after them, as the last thing, the one summary.
C24_ProgressPerItem ==
  launchReport.ran =>
    LET shown == launchReport.toast
        updates == SelectSeq(shown, LAMBDA m : m.kind = "message")
    IN /\ Len(updates) = Len(launchReport.items)
       /\ \A k \in DOMAIN updates :
            /\ updates[k].of = Len(launchReport.items)
            /\ updates[k].count \in 0..k
       /\ Len(shown) = Len(updates) + 1
       /\ shown[Len(shown)].kind = "summary"

\* ------------------------------------------------------ terminal commands
\* C25: whatever the command text of a terminal item is, the shell starts one
\* process, osascript, and hands it the same script, with the command text,
\* unchanged, as the one argument after it: the command text has no part in
\* the script.
C25_CommandIsArgument ==
  (strategyCall.op = "launch" /\ strategyCall.item.type = "terminal") =>
    /\ Len(strategyCall.result.commands) = 1
    /\ strategyCall.result.commands[1].argv =
         << Osascript, DashE, TerminalScript, strategyCall.item.path >>

\* a command text with a quote and a semicolon in it
C25_Witness ==
  /\ strategyCall.op = "launch"
  /\ strategyCall.item.type = "terminal"
  /\ Includes(strategyCall.item.path, "'")
  /\ Includes(strategyCall.item.path, ";")
  /\ strategyCall.result.commands[1].argv[3] = TerminalScript

\* ------------------------------------------------------- nothing is changed
\* every element of out is an element of in, as often at most
SubList(out, in) ==
  \A k \in DOMAIN out : Count(out, out[k]) <= Count(in, out[k])

\* C26: what verify returns (on its own or inside close) are artifacts of
\* its input, field by field, none more often than the input has it; verify
\* and close leave the list of the caller as it is; a launch only adds to the
\* list it returns and leaves the items as they are.
C26_NothingModified ==
  /\ [] /\ lastOp \in VerifyOps => SubList(verified, verifyInput)
        /\ closeReport.ran =>
              SubList(closeReport.verifiedWindows, closeReport.windows)
  /\ [][ /\ pc = "idle" => allTrackedWindows' = allTrackedWindows
         /\ pc # "idle" =>
              /\ Len(allTrackedWindows') >= Len(allTrackedWindows)
              /\ \A k \in DOMAIN allTrackedWindows :
                   allTrackedWindows'[k] = allTrackedWindows[k]
              /\ IF pc' = "idle" THEN launchReport'.items = items
                 ELSE items' = items ]_vars

\* a verify has returned one artifact of two, an app-level one
C26_Witness ==
  /\ lastOp \in VerifyOps
  /\ Len(verified) = 1
  /\ Len(verifyInput) = 2
  /\ verified[1].trackingMode = "app"

\* ---------------------------------------------------- how a window is closed
\* the commands a close issued for artifact w, in the order it issued them
CommandsFor(commands, w) == SelectSeq(commands, LAMBDA c : c.for = w.id)

\* C27: for an app-level artifact close issues the quit first, and the
\* killall after it exactly when the quit failed; a killall that fails too
\* leaves no error behind: closeWorkspace ends without one.
C27_QuitThenForceQuit ==
  closeReport.ran =>
    /\ closeReport.result # "Workspace closed with errors"
    /\ \A k \in DOMAIN closeReport.verifiedWindows :
         LET w == closeReport.verifiedWindows[k]
             issued == CommandsFor(closeReport.commands, w)
         IN w.trackingMode = "app" =>
              /\ Len(issued) >= 1
              /\ issued[1].cmd = "quit"
              /\ IF issued[1].ok THEN Len(issued) = 1
                 ELSE Len(issued) = 2 /\ issued[2].cmd = "killall"

\* the quit of an application failed and the killall after it failed too
C27_Witness ==
  /\ closeReport.ran
  /\ \E k \in DOMAIN closeReport.verifiedWindows :
       LET issued == CommandsFor(closeReport.commands,
                                 closeReport.verifiedWindows[k])
       IN /\ closeReport.verifiedWindows[k].trackingMode = "app"
          /\ Len(issued) = 2
          /\ ~issued[1].ok
          /\ ~issued[2].ok

\* C28: for a window-level artifact close issues the click on the close
\* button of the window first, and the direct close of the window after it
\* exactly when the click failed; both name the window id of the artifact.
C28_ClickThenDirectClose ==
  closeReport.ran =>
    \A k \in DOMAIN closeReport.verifiedWindows :
      LET w == closeReport.verifiedWindows[k]
          issued == CommandsFor(closeReport.commands, w)
      IN w.trackingMode = "window" =>
           /\ Len(issued) >= 1
           /\ issued[1].cmd = "click"
           /\ IF issued[1].ok THEN Len(issued) = 1
              ELSE Len(issued) = 2 /\ issued[2].cmd = "close"
           /\ \A c \in DOMAIN issued :
                issued[c].systemWindowId = w.systemWindowId

\* the click failed and the direct close closed the window
C28_Witness ==
  /\ closeReport.ran
  /\ lastOp = "close"
  /\ \E k \in DOMAIN closeReport.verifiedWindows :
       LET w == closeReport.verifiedWindows[k]
           issued == CommandsFor(closeReport.commands, w)
       IN /\ w.trackingMode = "window"
          /\ Len(issued) = 2
          /\ ~issued[1].ok
          /\ issued[2].ok
          /\ w.systemWindowId \in closeReport.windowsAtCall \ os.wins

\* C29: a close whose commands fail for one artifact goes on with the next:
\* when closeWorkspace returns, a command has been issued for every artifact
\* its verification returned, and no error has got out.
C29_CloseGoesOn ==
  closeReport.ran =>
    /\ Ids(closeReport.verifiedWindows) = IssuedFor(closeReport.commands)
    /\ closeReport.result # "Workspace closed with errors"

\* the commands of the first artifact failed, those of the second did not
C29_Witness ==
  /\ closeReport.ran
  /\ Len(closeReport.verifiedWindows) = 2
  /\ \A c \in DOMAIN CommandsFor(closeReport.commands,
                                  closeReport.verifiedWindows[1]) :
       ~CommandsFor(closeReport.commands, closeReport.verifiedWindows[1])[c].ok
  /\ \E c \in DOMAIN closeReport.commands :
       /\ closeReport.commands[c].for = closeReport.verifiedWindows[2].id
       /\ closeReport.commands[c].ok

\* ------------------------------------------------ the wait before the query
RECURSIVE Sum(_)
Sum(s) == IF s = <<>> THEN 0 ELSE Head(s) + Sum(Tail(s))

\* the polls that found the process
Found(answers) == { k \in DOMAIN answers : answers[k] }

\* C30 as stated: without wasRunning at most 15 polls, a poll interval after
\* each poll that found nothing, and the settle delay as the last timer,
\* whether or not a poll found the process; with wasRunning the settle delay
\* and no poll.
C30_SettlesAlways ==
  wait.ran =>
    /\ maxAttempts = 15
    /\ wait.result.polled <= maxAttempts
    /\ wait.result.timers # <<>>
    /\ wait.result.timers[Len(wait.result.timers)] = WindowSettleMs
    /\ \A k \in 1..(Len(wait.result.timers) - 1) :
         wait.result.timers[k] = PollIntervalMs
    /\ wait.wasRunning => wait.result.polled = 0 /\ Len(wait.result.timers) = 1

\* C30, amended: without wasRunning the process is polled until a poll finds
\* it, 15 times at most, a poll interval after each poll that found nothing;
\* the settle delay follows the poll that found it, and no settle delay
\* follows when none did.  With wasRunning there is the settle delay and no
\* poll.  The timers of the wait take 1700 ms together at most.
C30_SettlesWhenFound ==
  wait.ran =>
    /\ maxAttempts = 15
    /\ Sum(wait.result.timers) <= MaxWaitMs - PollIntervalMs + WindowSettleMs
    /\ IF wait.wasRunning
       THEN wait.result = [polled |-> 0, timers |-> <<WindowSettleMs>>]
       ELSE IF Found(wait.answers) = {}
       THEN wait.result =
              [ polled |-> maxAttempts,
                timers |-> [k \in 1..maxAttempts |-> PollIntervalMs] ]
       ELSE wait.result =
              [ polled |-> Min(Found(wait.answers)),
                timers |-> [k \in 1..Min(Found(wait.answers)) |->
                              IF k < Min(Found(wait.answers))
                              THEN PollIntervalMs ELSE WindowSettleMs] ]

\* no poll found the process: 15 polls, 15 poll intervals, no settle delay
C30_Witness ==
  /\ wait.ran
  /\ ~wait.wasRunning
  /\ wait.result.polled = 15
  /\ Len(wait.result.timers) = 15
  /\ ~Includes(wait.result.timers, WindowSettleMs)

\* C31: window titles are best effort.  captureAfterState makes one title
\* query per new window id and never rejects because of one; a title query
\* that times out or fails leaves its artifact without a title; the
\* artifacts it returns are those the ids before and after give, whatever
\* the title queries do: one window-mode artifact per new id, in their order.
C31_TitlesBestEffort ==
  capture.ran =>
    LET r == capture.result
        new == NewWindowIds(capture.afterIds, capture.before.windowIdsBefore)
    IN /\ r.titleQueries = new
       /\ ~r.threw
       /\ r.tracked = captureAfterState(capture.before, capture.afterIds, 1)
       /\ new # <<>> =>
            /\ Len(r.tracked) = Len(new)
            /\ \A k \in DOMAIN new :
                 /\ r.tracked[k].trackingMode = "window"
                 /\ r.tracked[k].systemWindowId = new[k]
                 /\ capture.titleExecs[k].outcome # "ok" =>
                      r.windowTitle[k] = <<"undefined">>
                 /\ (/\ capture.titleExecs[k].outcome = "ok"
                     /\ capture.titleExecs[k].stdout # <<>>) =>
                      r.windowTitle[k] = capture.titleExecs[k].stdout

\* two new windows, the title query of one timed out and that of the other
\* failed: two artifacts without title
C31_Witness ==
  /\ capture.ran
  /\ Len(capture.result.titleQueries) = 2
  /\ capture.titleExecs[1].outcome = "timeout"
  /\ capture.titleExecs[2].outcome = "error"
  /\ Len(capture.result.tracked) = 2
  /\ capture.result.windowTitle = << <<"undefined">>, <<"undefined">> >>

\* what a call of execWithTimeout has settled with so far, and how
ResolvedAsSaid ==
  timedExec.started =>
    /\ Len(timedExec.settled) <= 1
    /\ timedExec.resolved <=> Len(timedExec.settled) = 1
    /\ \A k \in DOMAIN timedExec.settled :
         /\ timedExec.settled[k].kind = "resolve"
         /\ timedExec.settled[k].value =
              IF timedExec.first = "callback"
                 /\ timedExec.command.outcome = "ok"
              THEN timedExec.command.stdout ELSE <<>>
    /\ timedExec.first = "timer" =>
         timedExec.killCalled /\ timedExec.childProcess # "running"
    /\ timedExec.first = "callback" => ~timedExec.killCalled

\* C32: under every interleaving of the timer and the callback of the child
\* process, a call of execWithTimeout resolves once and no more, and never
\* rejects: with the output of the command when the command ended without
\* error and its callback ran before the timer, with the empty string when
\* the timer ran first or the command failed.  When the timer runs first the
\* child process is killed, and nothing that happens after the call has
\* resolved changes what it resolved with.
C32_ResolvesOnce ==
  /\ []ResolvedAsSaid
  /\ [][(timedExec.started /\ timedExec.resolved) =>
          (timedExec'.resolved /\ timedExec'.settled = timedExec.settled)]_vars
  /\ (timedExec.started ~>
        (timedExec.started /\ Len(timedExec.settled) = 1))

\* the command ended with output, the timer ran before its callback, the
\* callback ran after it: resolved once, with the empty string
C32_Witness ==
  /\ timedExec.started
  /\ timedExec.command.outcome = "ok"
  /\ timedExec.command.stdout # <<>>
  /\ timedExec.first = "timer"
  /\ timedExec.childProcess = "exited"
  /\ timedExec.callback = "delivered"
  /\ timedExec.settled = << [kind |-> "resolve", value |-> <<>>] >>

\* the items of a launch that are launched together under one process name:
\* application items of one delay bucket whose paths give the same appName
SameProcessTogether(its) ==
  \E i, j \in DOMAIN its :
    /\ i # j
    /\ its[i].type = "app" /\ its[j].type = "app"
    /\ its[i].delay = its[j].delay
    /\ ~AppNameThrows(its[i]) /\ ~AppNameThrows(its[j])
    /\ getAppName(its[i]) = getAppName(its[j])

\* C33: when two application items of one delay bucket have the same
\* process name, the list launchWorkspace returns holds no two window-mode
\* artifacts of the same process name and systemWindowId.
C33_NoWindowClaimedTwice ==
  (launchReport.ran /\ SameProcessTogether(launchReport.items)) =>
    \A j, k \in DOMAIN launchReport.returned :
      (/\ j # k
       /\ launchReport.returned[j].trackingMode = "window"
       /\ launchReport.returned[k].trackingMode = "window"
       /\ launchReport.returned[j].appName = launchReport.returned[k].appName)
      => launchReport.returned[j].systemWindowId
           # launchReport.returned[k].systemWindowId

\* C34: an application item whose launch command failed has no artifact in
\* the list launchWorkspace returns.
C34_FailedLaunchNoArtifact ==
  launchReport.ran =>
    \A i \in launchReport.launchFailed :
      launchReport.items[i].type = "app" =>
        \A k \in DOMAIN launchReport.returned :
          launchReport.returned[k].itemId # i

\* C35: captureAfterState returns an application-mode artifact only when a
\* poll of its wait has found the process running; when the process was not
\* running before and no poll finds it, it returns no artifact.
C35_AppModeOnlyIfSeen ==
  capture.ran =>
    /\ \A k \in DOMAIN capture.result.tracked :
         capture.result.tracked[k].trackingMode = "app" =>
           Found(capture.answers) # {}
    /\ (~capture.before.wasRunning /\ Found(capture.answers) = {}) =>
         capture.result.tracked = <<>>

\* C36: an application that was running before the capture-before is not
\* quit by a close of what the capture returned, whatever the liveness probe
\* of the capture-before answered.
C36_NeverQuitsPreexisting ==
  (capture.ran /\ capture.close.ran /\ capture.machineBefore.running) =>
    \A c \in DOMAIN capture.close.commands :
      capture.close.commands[c].cmd \notin QuitCommands

\* C37: a verify returns every window-mode artifact it was given whose
\* window is open in a process that is running, also when the window-id
\* query of the verify fails or runs into its timeout.
C37_VerifyKeepsOpenWindows ==
  lastOp \in VerifyOps =>
    \A k \in DOMAIN verifyInput :
      (/\ verifyInput[k].trackingMode = "window"
       /\ os.running[verifyInput[k].appName]
       /\ verifyInput[k].systemWindowId
            \in WindowsOf(os, verifyInput[k].appName))
      => Includes(verified, verifyInput[k])

\* C38: for a workspace of one application item, launchWorkspace returns the
\* artifacts AppLauncher.launch returns for the same before-state, the same
\* outcome of the launch command and the same ids after the launch, and it
\* reports a failure exactly when AppLauncher.launch throws.
C38_PhasedAsStandard ==
  (/\ launchReport.ran
   /\ Len(launchReport.items) = 1
   /\ launchReport.items[1].type = "app") =>
    LET standard ==
          launch(launchReport.before[1], 1 \notin launchReport.launchFailed,
                 IF launchReport.after[1].ran
                 THEN launchReport.after[1].afterIds ELSE <<>>,
                 1)
    IN /\ launchReport.returned = standard.tracked
       /\ (launchReport.summary.style = "failure") = standard.threw

\* C39: no window-mode artifact that captureAfterState returns has the
\* systemWindowId 0 of the application-mode artifacts, whatever window ids
\* the machine reports.
C39_SentinelNotAWindow ==
  capture.ran =>
    \A k \in DOMAIN capture.result.tracked :
      capture.result.tracked[k].trackingMode = "window" =>
        capture.result.tracked[k].systemWindowId # NoArtifactId

====
